---- MODULE Spec2Model ----
(***************************************************************************)
(* Trade-to-position reconciliation of OraclePortfolioManager.             *)
(*                                                                         *)
(* The SQLite ledger (tables positions and trades) and the code that       *)
(* writes it: apply_trade_event_to_db / find_or_create_position_id of      *)
(* analytics/python/schwab_backfill.py and upsert_trade /                  *)
(* upsert_position_from_broker of automation/python/brokers/               *)
(* schwab_import.py.                                                       *)
(*                                                                         *)
(* Money is kept in cents (price 150 is $1.50), so that                    *)
(* gross = |quantity * price * 100.0| is an integer number of cents.       *)
(* A position's id is its index in the sequence positions (SQLite rowids   *)
(* of a table nothing is deleted from).  The trades table is a bag of      *)
(* rows: no code reads a trade's id, so rows are told apart by content.    *)
(***************************************************************************)
EXTENDS Integers, Sequences, FiniteSets, Bags, TLC

VARIABLES
    positions,   \* table positions: sequence of rows, id = index
    trades,      \* table trades: bag of rows
    uniqueIdx,   \* schema: is there a UNIQUE index on positions(symbol, strategy, strike, expiration)
    pending,     \* the backfill process inside apply_trade_event_to_db, between two commits
    last,        \* what the last call did and printed
    arg,         \* the event a pure function is evaluated on
    ret          \* its result

vars == <<positions, trades, uniqueIdx, pending, last, arg, ret>>

(***************************************************************************)
(* Bounds of the model.                                                    *)
(***************************************************************************)
MaxPositions == 2
MaxTrades == 2

(***************************************************************************)
(* Values.                                                                 *)
(***************************************************************************)
None == "None"

Symbols == {"XYZ"}
OptionTypes == {"PUT", "CALL"}
Strikes == {50}
Expirations == {[year |-> 2025, month |-> 12, day |-> 19]}
Quantities == {1, 2}
Prices == {50, 150}
\* a datetime: wall-clock seconds, microseconds, UTC offset
DateTimes == {[wall |-> 1, micro |-> 0, off |-> 0], [wall |-> 2, micro |-> 0, off |-> 0]}

LiveStatuses == {"OPEN", "EXPIRED"}

\* class TradeEvent
TradeEvent(dirs, ocs, prices, datetimes) ==
    [symbol : Symbols, option_type : OptionTypes, strike : Strikes,
     expiration : Expirations, direction : dirs, open_close : ocs,
     quantity : Quantities, price : prices, commissions : {65}, fees : {2},
     trade_datetime : datetimes, underlying_price : {None}]

\* the events the ledger is driven with
Events ==
    TradeEvent({"BUY", "SELL", "HOLD"}, {"OPENING", "CLOSING"}, {150},
               {[wall |-> 1, micro |-> 0, off |-> 0]})

\* the events the resolver is evaluated on
ResolverEvents ==
    TradeEvent({"BUY", "SELL", "buy", "sell", "HOLD", ""},
               {"OPENING", "CLOSING", "UNKNOWN", "opening", ""}, {150},
               {[wall |-> 1, micro |-> 0, off |-> 0]})

(***************************************************************************)
(* Conversions.                                                            *)
(***************************************************************************)
\* str.upper() on the strings of the model
Upper(s) ==
    CASE s = "buy" -> "BUY"
      [] s = "sell" -> "SELL"
      [] s = "opening" -> "OPENING"
      [] s = "closing" -> "CLOSING"
      [] s = "filled" -> "FILLED"
      [] s = "sell_to_open" -> "SELL_TO_OPEN"
      [] s = "p" -> "P"
      [] s = "c" -> "C"
      [] OTHER -> s

\* date.isoformat()
isoformat(d) ==
    IF d = [year |-> 2025, month |-> 12, day |-> 19] THEN "2025-12-19" ELSE "0000-00-00"

\* datetime.strftime("%Y-%m-%dT%H:%M:%SZ"): the wall-clock reading to the second,
\* with a literal Z; neither the microseconds nor the offset are used
strftime(dt) == dt.wall

Abs(x) == IF x < 0 THEN -x ELSE x

\* the largest element instead of the smallest
Largest(S) == CHOOSE x \in S : \A y \in S : x >= y

Min(S) == CHOOSE x \in S : \A y \in S : x <= y

(***************************************************************************)
(* Action/direction resolver.                                              *)
(***************************************************************************)
\* f"{direction}_{base}"
ActionName(direction, base) ==
    CASE direction = "BUY"  /\ base = "OPEN"  -> "BUY_OPEN"
      [] direction = "BUY"  /\ base = "CLOSE" -> "BUY_CLOSE"
      [] direction = "SELL" /\ base = "OPEN"  -> "SELL_OPEN"
      [] direction = "SELL" /\ base = "CLOSE" -> "SELL_CLOSE"
      [] OTHER -> None

\* ActionBase with the fallback of an unknown qualifier swapped
ActionBaseSwapped(direction, oc) ==
    IF oc = "OPENING" THEN "OPEN"
    ELSE IF oc = "CLOSING" THEN "CLOSE"
    ELSE IF direction = "SELL" THEN "CLOSE"
    ELSE IF direction = "BUY" THEN "OPEN"
    ELSE "None"

\* the open/close base of derive_action_from_event, None where it returns early
ActionBase(direction, oc) ==
    IF oc = "OPENING" THEN "OPEN"
    ELSE IF oc = "CLOSING" THEN "CLOSE"
    ELSE IF direction = "SELL" THEN "OPEN"
    ELSE IF direction = "BUY" THEN "CLOSE"
    ELSE None

derive_action_from_event(ev) ==
    LET direction == Upper(ev.direction)
        oc == Upper(ev.open_close)
        base == ActionBase(direction, oc)
    IN  IF base = None THEN None
        ELSE IF direction \notin {"BUY", "SELL"} THEN None
        ELSE ActionName(direction, base)

\* action.split("_", 1)
ActionSide(action) == IF action \in {"BUY_OPEN", "BUY_CLOSE"} THEN "BUY" ELSE "SELL"

ActionPhase(action) == IF action \in {"BUY_OPEN", "SELL_OPEN"} THEN "OPEN" ELSE "CLOSE"

\* contracts_signed of apply_trade_event_to_db
contracts_signed(action, quantity) ==
    LET side == ActionSide(action)
        phase == ActionPhase(action)
        qty == quantity
    IN  IF phase = "OPEN"
        THEN (IF side = "BUY" THEN qty ELSE -qty)
        ELSE (IF side = "SELL" THEN -qty ELSE qty)

(***************************************************************************)
(* Position matcher.                                                       *)
(***************************************************************************)
StrategyOf(ev) ==
    IF ev.direction = "SELL" /\ ev.option_type = "PUT" THEN "ShortPut"
    ELSE IF ev.direction = "SELL" /\ ev.option_type = "CALL" THEN "ShortCall"
    ELSE IF ev.direction = "BUY" /\ ev.option_type = "PUT" THEN "LongPut"
    ELSE "LongCall"

\* the identity key the SELECT compares and the unique index covers
SameIdentity(row, symbol, strategy, strike, expiration) ==
    /\ row.symbol = symbol
    /\ row.strategy = strategy
    /\ row.strike = strike
    /\ row.expiration = expiration

\* LiveMatches with the status test inverted
LiveMatchesInverted(pos, ev) ==
    {i \in 1..Len(pos) :
        /\ SameIdentity(pos[i], ev.symbol, StrategyOf(ev), ev.strike, isoformat(ev.expiration))
        /\ pos[i].status \notin LiveStatuses}

\* SELECT id FROM positions WHERE ... AND status IN ('OPEN', 'EXPIRED')
LiveMatches(pos, ev) ==
    {i \in 1..Len(pos) :
        /\ SameIdentity(pos[i], ev.symbol, StrategyOf(ev), ev.strike, isoformat(ev.expiration))
        /\ pos[i].status \in LiveStatuses}

\* NewPosition with the event's quantity as contracts and its gross as credit
NewPositionApplied(ev) ==
    [symbol |-> ev.symbol, strategy |-> StrategyOf(ev), contracts |-> ev.quantity,
     status |-> "OPEN", strike |-> ev.strike, expiration |-> isoformat(ev.expiration),
     entry_price |-> ev.price, mark |-> ev.price,
     total_credit |-> Abs(ev.quantity * ev.price * 100), total_debit |-> 0,
     commissions |-> 0, fees |-> 0,
     entry_date |-> strftime(ev.trade_datetime),
     last_updated |-> strftime(ev.trade_datetime)]

\* the row find_or_create_position_id inserts
NewPosition(ev) ==
    [symbol |-> ev.symbol, strategy |-> StrategyOf(ev), contracts |-> 0,
     status |-> "OPEN", strike |-> ev.strike, expiration |-> isoformat(ev.expiration),
     entry_price |-> ev.price, mark |-> ev.price,
     total_credit |-> 0, total_debit |-> 0, commissions |-> 0, fees |-> 0,
     entry_date |-> strftime(ev.trade_datetime),
     last_updated |-> strftime(ev.trade_datetime)]

\* does the INSERT of a row with this identity hit the unique index
IndexConflict(pos, uniq, symbol, strategy, strike, expiration) ==
    uniq /\ \E i \in 1..Len(pos) : SameIdentity(pos[i], symbol, strategy, strike, expiration)

\* find_or_create_position_id: the table after it (the INSERT is committed), the id
\* returned, and whether the INSERT raised sqlite3.IntegrityError
find_or_create_position_id(pos, ev, uniq) ==
    LET found == LiveMatches(pos, ev)
    IN  IF found # {}
        THEN [positions |-> pos, id |-> Min(found), created |-> FALSE, raised |-> FALSE]
        ELSE IF IndexConflict(pos, uniq, ev.symbol, StrategyOf(ev), ev.strike,
                              isoformat(ev.expiration))
        THEN [positions |-> pos, id |-> 0, created |-> FALSE, raised |-> TRUE]
        ELSE [positions |-> Append(pos, NewPosition(ev)), id |-> Len(pos) + 1,
              created |-> TRUE, raised |-> FALSE]

(***************************************************************************)
(* Ledger applier.                                                         *)
(***************************************************************************)
\* the natural key the duplicate check compares
NaturalKey(row) ==
    <<row.position_id, row.trade_datetime, row.action, row.contracts, row.price>>

\* the row apply_trade_event_to_db inserts
TradeRow(ev, action, pos_id) ==
    [position_id |-> pos_id, trade_datetime |-> strftime(ev.trade_datetime),
     action |-> action, contracts |-> contracts_signed(action, ev.quantity),
     price |-> ev.price, commissions |-> ev.commissions, fees |-> ev.fees,
     underlying_price |-> ev.underlying_price, notes |-> "Imported from Schwab"]

\* ExistingTrade comparing the contracts column with the unsigned quantity
ExistingTradeUnsigned(trd, row) ==
    \E t \in BagToSet(trd) :
        <<t.position_id, t.trade_datetime, t.action, t.contracts, t.price>> =
        <<row.position_id, row.trade_datetime, row.action, Abs(row.contracts), row.price>>

\* SELECT id FROM trades WHERE position_id = ? AND trade_datetime = ? AND ...
ExistingTrade(trd, row) ==
    \E t \in BagToSet(trd) : NaturalKey(t) = NaturalKey(row)

\* gross = abs(ev.quantity * ev.price * 100.0)
Gross(ev) == Abs(ev.quantity * ev.price * 100)

\* CreditOf with the sides swapped
CreditOfSwapped(ev, action) ==
    IF (IF action \in {"BUY_OPEN", "BUY_CLOSE"} THEN "BUY" ELSE "SELL") = "BUY"
    THEN Abs(ev.quantity * ev.price * 100) ELSE 0

CreditOf(ev, action) == IF ActionSide(action) = "SELL" THEN Gross(ev) ELSE 0

DebitOf(ev, action) == IF ActionSide(action) = "SELL" THEN 0 ELSE Gross(ev)

\* UpdateMatches without the status test
UpdateMatchesAnyStatus(pos, pos_id) == {i \in 1..Len(pos) : i = pos_id}

\* the WHERE clause of the position UPDATE
UpdateMatches(pos, pos_id) ==
    {i \in 1..Len(pos) : i = pos_id /\ pos[i].status \in LiveStatuses}

\* UpdatePosition setting mark to the price of the fill as well
UpdatePositionMarking(pos, ev, action, pos_id) ==
    [i \in 1..Len(pos) |->
        IF i = pos_id /\ pos[i].status \in LiveStatuses
        THEN [f \in DOMAIN pos[i] |->
                CASE f = "contracts" ->
                        pos[i][f] + (IF action \in {"BUY_OPEN", "BUY_CLOSE"}
                                     THEN ev.quantity ELSE -ev.quantity)
                  [] f = "mark" -> ev.price
                  [] f = "last_updated" -> ev.trade_datetime.wall
                  [] OTHER -> pos[i][f]]
        ELSE pos[i]]

\* UpdatePosition adding the unsigned quantity to contracts
UpdatePositionUnsigned(pos, ev, action, pos_id) ==
    [i \in 1..Len(pos) |->
        IF i = pos_id /\ pos[i].status \in LiveStatuses
        THEN [f \in DOMAIN pos[i] |->
                CASE f = "contracts" -> pos[i][f] + ev.quantity
                  [] f = "last_updated" -> ev.trade_datetime.wall
                  [] OTHER -> pos[i][f]]
        ELSE pos[i]]

\* UPDATE positions SET contracts = contracts + ?, ... WHERE id = ? AND status IN (...)
\* A column that is NULL is a field the row does not have: NULL + ? stays NULL.
UpdatePosition(pos, ev, action, pos_id) ==
    [i \in 1..Len(pos) |->
        IF i \in UpdateMatches(pos, pos_id)
        THEN [f \in DOMAIN pos[i] |->
                CASE f = "contracts" -> pos[i][f] + contracts_signed(action, ev.quantity)
                  [] f = "total_credit" -> pos[i][f] + CreditOf(ev, action)
                  [] f = "total_debit" -> pos[i][f] + DebitOf(ev, action)
                  [] f = "commissions" -> pos[i][f] + ev.commissions
                  [] f = "fees" -> pos[i][f] + ev.fees
                  [] f = "last_updated" -> strftime(ev.trade_datetime)
                  [] OTHER -> pos[i][f]]
        ELSE pos[i]]

\* what a call did: its outcome, the rowcount of its position UPDATE, and whether it
\* printed a [WARN] line
Report(op, outcome, rows, warn) ==
    [op |-> op, outcome |-> outcome, rows |-> rows, warn |-> warn]

\* apply_trade_event_to_db from the duplicate check on, for the position pos_id
ApplyToPosition(pos, trd, ev, action, pos_id, dry_run) ==
    LET row == TradeRow(ev, action, pos_id)
    IN  IF ExistingTrade(trd, row)
        THEN [positions |-> pos, trades |-> trd,
              report |-> Report("apply", "duplicate", 0, FALSE)]
        ELSE IF dry_run
        THEN [positions |-> pos, trades |-> trd,
              report |-> Report("apply", "dry", 0, FALSE)]
        ELSE [positions |-> UpdatePosition(pos, ev, action, pos_id),
              trades |-> trd (+) SetToBag({row}),
              report |-> Report("apply", "applied",
                                Cardinality(UpdateMatches(pos, pos_id)), FALSE)]

\* apply_trade_event_to_db, the whole call with no other writer in between
apply_trade_event_to_db(pos, trd, ev, dry_run, uniq) ==
    LET action == derive_action_from_event(ev)
        found == find_or_create_position_id(pos, ev, uniq)
    IN  IF action = None
        THEN [positions |-> pos, trades |-> trd,
              report |-> Report("apply", "skipped", 0, TRUE)]
        ELSE IF found.raised
        THEN [positions |-> pos, trades |-> trd,
              report |-> Report("apply", "raised", 0, FALSE)]
        ELSE ApplyToPosition(found.positions, trd, ev, action, found.id, dry_run)

(***************************************************************************)
(* The backfill as the only writer: main's loop calls                      *)
(* apply_trade_event_to_db for one event after the other.                  *)
(***************************************************************************)
NoCall == [active |-> FALSE]

NoReport == Report("none", "none", 0, FALSE)

InitLedger ==
    /\ positions = <<>>
    /\ trades = EmptyBag
    /\ pending = NoCall
    /\ last = NoReport

\* with the backfill as the only writer no position is ever closed, and the index
\* on the identity key is never hit: the run is the same under either schema
NoResult == [done |-> FALSE]

Init ==
    /\ InitLedger
    /\ uniqueIdx = TRUE
    /\ arg = None
    /\ ret = NoResult

Apply(ev, dry_run) ==
    LET r == apply_trade_event_to_db(positions, trades, ev, dry_run, uniqueIdx)
    IN  /\ pending = NoCall
        /\ Len(r.positions) <= MaxPositions
        /\ BagCardinality(r.trades) <= MaxTrades
        /\ positions' = r.positions
        /\ trades' = r.trades
        /\ last' = r.report
        /\ UNCHANGED <<uniqueIdx, pending, arg, ret>>

Backfill == \E ev \in Events, dry_run \in BOOLEAN : Apply(ev, dry_run)

Next == Backfill

Spec == Init /\ [][Next]_vars

(***************************************************************************)
(* Every writer of the ledger.  The backfill and the broker import are     *)
(* separate scripts with their own connections: a call of the import can   *)
(* commit between two statements of apply_trade_event_to_db that are not   *)
(* in one transaction, that is between the commit (or the SELECT) of       *)
(* find_or_create_position_id and the INSERT that opens the transaction    *)
(* of the trade.                                                           *)
(***************************************************************************)
\* the events the backfill is driven with next to the other writers
WriterEvents ==
    {ev \in Events : ev.option_type = "PUT" /\ ev.quantity = 2 /\ ev.direction # "HOLD"}

\* the payloads upsert_position_from_broker is called with
BrokerPayloads ==
    [symbol : Symbols, strategy : {"ShortPut"}, strike : Strikes,
     expiration : {"2025-12-19"}, open : BOOLEAN, contracts : {4},
     entry_datetime : {1}, entry_price : {150}, mark : {140}]

\* datetime('now')
Now == 9

InitWriters ==
    /\ InitLedger
    /\ uniqueIdx \in BOOLEAN
    /\ arg = None
    /\ ret = NoResult

\* apply_trade_event_to_db up to the return of find_or_create_position_id
ApplyBegin(ev, dry_run) ==
    LET action == derive_action_from_event(ev)
        found == find_or_create_position_id(positions, ev, uniqueIdx)
    IN  /\ pending = NoCall
        /\ Len(found.positions) <= MaxPositions
        /\ IF action = None
           THEN /\ last' = Report("apply", "skipped", 0, TRUE)
                /\ UNCHANGED <<positions, pending>>
           ELSE IF found.raised
           THEN /\ last' = Report("apply", "raised", 0, FALSE)
                /\ UNCHANGED <<positions, pending>>
           ELSE /\ positions' = found.positions
                /\ pending' = [active |-> TRUE, ev |-> ev, action |-> action,
                               pos_id |-> found.id, dry_run |-> dry_run]
                /\ last' = Report("find_or_create",
                                  IF found.created THEN "created" ELSE "found", 0, FALSE)
        /\ UNCHANGED <<trades, uniqueIdx, arg, ret>>

\* apply_trade_event_to_db from the duplicate check to its commit
ApplyFinish ==
    /\ pending # NoCall
    /\ LET r == ApplyToPosition(positions, trades, pending.ev, pending.action,
                                pending.pos_id, pending.dry_run)
       IN  /\ BagCardinality(r.trades) <= MaxTrades
           /\ positions' = r.positions
           /\ trades' = r.trades
           /\ last' = r.report
    /\ pending' = NoCall
    /\ UNCHANGED <<uniqueIdx, arg, ret>>

\* upsert_trade: a plain INSERT and a commit
upsert_trade(trd, pos_id, when_utc, action, contracts, price) ==
    trd (+) SetToBag({[position_id |-> pos_id, trade_datetime |-> when_utc,
                       action |-> action, contracts |-> contracts, price |-> price,
                       commissions |-> 0, fees |-> 0, underlying_price |-> None,
                       notes |-> None]})

UpsertTrade(pos_id, when_utc, action, contracts, price) ==
    /\ BagCardinality(trades) < MaxTrades
    /\ trades' = upsert_trade(trades, pos_id, when_utc, action, contracts, price)
    /\ last' = Report("upsert_trade", "inserted", 0, FALSE)
    /\ UNCHANGED <<positions, uniqueIdx, pending, arg, ret>>

\* the row upsert_position_from_broker inserts: the columns its INSERT does not
\* name (total_credit, total_debit, commissions, fees) are left to the table
BrokerPosition(payload) ==
    [symbol |-> payload.symbol, strategy |-> payload.strategy,
     contracts |-> payload.contracts,
     status |-> IF payload.open THEN "OPEN" ELSE "CLOSED",
     strike |-> payload.strike, expiration |-> payload.expiration,
     entry_price |-> payload.entry_price, mark |-> payload.mark,
     entry_date |-> payload.entry_datetime, last_updated |-> Now]

\* ON CONFLICT(symbol, strategy, strike, expiration) DO UPDATE SET ...
ConflictRows(pos, payload) ==
    {i \in 1..Len(pos) :
        SameIdentity(pos[i], payload.symbol, payload.strategy, payload.strike,
                     payload.expiration)}

\* upsert_position_from_broker.  Without a unique index on the conflict target
\* SQLite rejects the statement (sqlite3.OperationalError) and nothing is written.
upsert_position_from_broker(pos, payload, uniq) ==
    IF ~uniq THEN pos
    ELSE IF ConflictRows(pos, payload) = {} THEN Append(pos, BrokerPosition(payload))
    ELSE [i \in 1..Len(pos) |->
            IF i \in ConflictRows(pos, payload)
            THEN [pos[i] EXCEPT !.contracts = payload.contracts,
                                !.status = IF payload.open THEN "OPEN" ELSE "CLOSED",
                                !.mark = payload.mark,
                                !.last_updated = Now]
            ELSE pos[i]]

UpsertPositionFromBroker(payload) ==
    LET after == upsert_position_from_broker(positions, payload, uniqueIdx)
    IN  /\ Len(after) <= MaxPositions
        /\ positions' = after
        /\ last' = Report("upsert_position", IF uniqueIdx THEN "upserted" ELSE "raised",
                          0, FALSE)
        /\ UNCHANGED <<trades, uniqueIdx, pending, arg, ret>>

BackfillStep ==
    \/ \E ev \in WriterEvents, dry_run \in BOOLEAN : ApplyBegin(ev, dry_run)
    \/ ApplyFinish

BrokerImport ==
    \/ \E payload \in BrokerPayloads : UpsertPositionFromBroker(payload)
    \/ \E pos_id \in 1..Len(positions) : UpsertTrade(pos_id, 1, "SELL_OPEN", -2, 150)

NextWriters == BackfillStep \/ BrokerImport

SpecWriters == InitWriters /\ [][NextWriters]_vars

(***************************************************************************)
(* The other writers of the positions table: update_db of the live update  *)
(* and the update_contracts script, each with a connection and a commit of *)
(* its own.                                                                *)
(***************************************************************************)
\* datetime.now().strftime("%Y-%m-%d %H:%M:%S")
NowLocal == 10

\* the quotes update_position returns: mark in cents, iv and delta in hundredths
Quotes == [mark : {120}, iv : {45}, delta : {-30}]

\* the WHERE clause of update_db without its status condition
LiveUpdateMatchesAnyStatus(pos, row_id) == {i \in 1..Len(pos) : i = row_id}

\* the WHERE clause of update_db
LiveUpdateMatches(pos, row_id) ==
    {i \in 1..Len(pos) : i = row_id /\ pos[i].status \notin {"CLOSED", "ROLLED"}}

\* update_db: UPDATE positions SET mark=?, iv=?, delta=?, last_updated=? WHERE id=?
\* AND status NOT IN ('CLOSED', 'ROLLED')
update_db(pos, row_id, mark, iv, delta) ==
    [i \in 1..Len(pos) |->
        IF i \in LiveUpdateMatches(pos, row_id)
        THEN [f \in DOMAIN pos[i] \cup {"mark", "iv", "delta", "last_updated"} |->
                CASE f = "mark" -> mark
                  [] f = "iv" -> iv
                  [] f = "delta" -> delta
                  [] f = "last_updated" -> NowLocal
                  [] OTHER -> pos[i][f]]
        ELSE pos[i]]

UpdateDb(row_id, quote) ==
    /\ positions' = update_db(positions, row_id, quote.mark, quote.iv, quote.delta)
    /\ last' = Report("update_db", "updated",
                      Cardinality(LiveUpdateMatches(positions, row_id)), FALSE)
    /\ UNCHANGED <<trades, uniqueIdx, pending, arg, ret>>

\* the WHERE clause of update_contracts
ContractsMatches(pos, symbol, expiration) ==
    {i \in 1..Len(pos) : pos[i].symbol = symbol /\ pos[i].expiration = expiration}

\* update_contracts: UPDATE positions SET contracts = ?, last_updated = datetime('now')
\* WHERE symbol = ? AND expiration = ?
update_contracts(pos, symbol, expiration, new_contracts) ==
    [i \in 1..Len(pos) |->
        IF i \in ContractsMatches(pos, symbol, expiration)
        THEN [f \in DOMAIN pos[i] \cup {"contracts", "last_updated"} |->
                CASE f = "contracts" -> new_contracts
                  [] f = "last_updated" -> Now
                  [] OTHER -> pos[i][f]]
        ELSE pos[i]]

UpdateContracts(symbol, expiration, new_contracts) ==
    /\ positions' = update_contracts(positions, symbol, expiration, new_contracts)
    /\ last' = Report("update_contracts", "updated",
                      Cardinality(ContractsMatches(positions, symbol, expiration)), FALSE)
    /\ UNCHANGED <<trades, uniqueIdx, pending, arg, ret>>

LiveUpdate == \E row_id \in 1..Len(positions), quote \in Quotes : UpdateDb(row_id, quote)

\* the script is edited for each use: its symbol, expiration and new_contracts
ContractsScript == \E symbol \in Symbols : UpdateContracts(symbol, "2025-12-19", 3)

\* the backfill next to every other writer: one opening sale, applied for real
BackfillSale ==
    \/ \E ev \in WriterEvents :
          ev.direction = "SELL" /\ ev.open_close = "OPENING" /\ ApplyBegin(ev, FALSE)
    \/ ApplyFinish

NextAllWriters == BackfillSale \/ BrokerImport \/ LiveUpdate \/ ContractsScript

SpecAllWriters == InitWriters /\ [][NextAllWriters]_vars

(***************************************************************************)
(* A run of main over one batch: for ev in events:                         *)
(* apply_trade_event_to_db(conn, ev, dry_run).  The run is the only writer *)
(* while it lasts; the broker import may have written the ledger before.   *)
(* The trade INSERT opens a transaction that the commit after the position *)
(* UPDATE ends; a process that stops before the commit leaves the ledger   *)
(* as the last commit left it.                                             *)
(***************************************************************************)
MaxBatch == 3

\* the events a batch is made of
BatchEvents ==
    {ev \in Events :
        /\ ev.option_type = "PUT"
        /\ \/ ev.direction = "SELL" /\ ev.open_close = "OPENING"
           \/ ev.direction = "BUY" /\ ev.open_close = "CLOSING" /\ ev.quantity = 2
           \/ ev.direction = "HOLD" /\ ev.open_close = "OPENING" /\ ev.quantity = 2}

Batches == UNION {[1..n -> BatchEvents] : n \in 1..MaxBatch}

\* Continues with a skipped event ending the loop as well
ContinuesUnlessSkipped(outcome) == outcome \notin {"raised", "skipped"}

\* the loop of main has no try/except: it goes on to the next event when the call
\* returned, and an exception raised by the call leaves main
Continues(outcome) == outcome # "raised"

\* the state of a run: the index of the event the loop is at, what the calls that
\* ended did, and whether main has ended
Run(dry_run, crashed) ==
    [done |-> FALSE, next |-> 1, outcomes |-> <<>>, dry_run |-> dry_run,
     crashed |-> crashed]

\* the run after the call for its current event ended with this outcome
AfterCall(run, events, outcome) ==
    [run EXCEPT !.outcomes = Append(run.outcomes, outcome),
                !.next = IF Continues(outcome) THEN run.next + 1 ELSE run.next,
                !.done = ~Continues(outcome) \/ run.next = Len(events)]

\* main from its i-th event on, with nothing stopping it
RECURSIVE main(_, _, _, _, _, _)
main(pos, trd, events, i, dry_run, uniq) ==
    IF i > Len(events) THEN [positions |-> pos, trades |-> trd]
    ELSE LET r == apply_trade_event_to_db(pos, trd, events[i], dry_run, uniq)
         IN  IF Continues(r.report.outcome)
             THEN main(r.positions, r.trades, events, i + 1, dry_run, uniq)
             ELSE [positions |-> r.positions, trades |-> r.trades]

InitBatch ==
    /\ InitLedger
    /\ uniqueIdx \in BOOLEAN
    /\ arg = None
    /\ ret = NoResult

\* the broker import has run before the backfill
BrokerImportBefore ==
    /\ ret = NoResult
    /\ \E payload \in BrokerPayloads : UpsertPositionFromBroker(payload)

\* main starts on the events normalize_orders_json returned
MainStart(events, dry_run) ==
    /\ ret = NoResult
    /\ arg' = [events |-> events, positions |-> positions, trades |-> trades]
    /\ ret' = Run(dry_run, FALSE)
    /\ last' = NoReport
    /\ UNCHANGED <<positions, trades, uniqueIdx, pending>>

Running == ret # NoResult /\ ~ret.done

\* apply_trade_event_to_db up to the return of find_or_create_position_id
MainLoopBegin ==
    /\ Running
    /\ pending = NoCall
    /\ LET ev == arg.events[ret.next]
           action == derive_action_from_event(ev)
           found == find_or_create_position_id(positions, ev, uniqueIdx)
       IN  IF action = None
           THEN /\ last' = Report("apply", "skipped", 0, TRUE)
                /\ ret' = AfterCall(ret, arg.events, "skipped")
                /\ UNCHANGED <<positions, pending>>
           ELSE IF found.raised
           THEN /\ last' = Report("apply", "raised", 0, FALSE)
                /\ ret' = AfterCall(ret, arg.events, "raised")
                /\ UNCHANGED <<positions, pending>>
           ELSE /\ positions' = found.positions
                /\ pending' = [active |-> TRUE, ev |-> ev, action |-> action,
                               pos_id |-> found.id, dry_run |-> ret.dry_run,
                               inserted |-> FALSE]
                /\ last' = Report("find_or_create",
                                  IF found.created THEN "created" ELSE "found", 0, FALSE)
                /\ UNCHANGED ret
    /\ UNCHANGED <<trades, uniqueIdx, arg>>

\* the duplicate check, the dry-run test and the trade INSERT, which is not committed
MainLoopInsert ==
    /\ Running
    /\ pending # NoCall
    /\ ~pending.inserted
    /\ LET r == ApplyToPosition(positions, trades, pending.ev, pending.action,
                                pending.pos_id, pending.dry_run)
       IN  IF r.report.outcome = "applied"
           THEN /\ pending' = [pending EXCEPT !.inserted = TRUE]
                /\ UNCHANGED <<last, ret>>
           ELSE /\ pending' = NoCall
                /\ last' = r.report
                /\ ret' = AfterCall(ret, arg.events, r.report.outcome)
    /\ UNCHANGED <<positions, trades, uniqueIdx, arg>>

\* the position UPDATE and conn.commit()
MainLoopCommit ==
    /\ Running
    /\ pending # NoCall
    /\ pending.inserted
    /\ LET r == ApplyToPosition(positions, trades, pending.ev, pending.action,
                                pending.pos_id, pending.dry_run)
       IN  /\ positions' = r.positions
           /\ trades' = r.trades
           /\ last' = r.report
           /\ ret' = AfterCall(ret, arg.events, r.report.outcome)
    /\ pending' = NoCall
    /\ UNCHANGED <<uniqueIdx, arg>>

\* the process stops (its open transaction is rolled back) and main is started again
\* on the same batch, without --dry-run
CrashAndRerun ==
    /\ ret # NoResult
    /\ ~ret.crashed
    /\ ret' = Run(FALSE, TRUE)
    /\ pending' = NoCall
    /\ last' = NoReport
    /\ UNCHANGED <<positions, trades, uniqueIdx, arg>>

NextBatch ==
    \/ BrokerImportBefore
    \/ \E events \in Batches, dry_run \in BOOLEAN : MainStart(events, dry_run)
    \/ MainLoopBegin
    \/ MainLoopInsert
    \/ MainLoopCommit
    \/ CrashAndRerun

SpecBatch == InitBatch /\ [][NextBatch]_vars

\* main is one sequential program: while it runs, the statement it is at is executed
MainLoop == MainLoopBegin \/ MainLoopInsert \/ MainLoopCommit

SpecBatchFair == SpecBatch /\ WF_vars(MainLoop)

(***************************************************************************)
(* The values of a decoded JSON payload and the Python operations          *)
(* normalize_orders_json applies to them.  A value carries its type; a     *)
(* dict is a function from its keys.  Prices are in cents, strikes in      *)
(* dollars.                                                                *)
(***************************************************************************)
JNone == [t |-> "NoneType"]

JStr(s) == [t |-> "str", v |-> s]

JInt(n) == [t |-> "int", v |-> n]

JList(q) == [t |-> "list", v |-> q]

JDict(f) == [t |-> "dict", v |-> f]

\* bool(x)
Truthy(x) ==
    CASE x.t = "NoneType" -> FALSE
      [] x.t = "str" -> x.v # ""
      [] x.t = "int" -> x.v # 0
      [] x.t = "list" -> Len(x.v) # 0
      [] x.t = "dict" -> DOMAIN x.v # {}

\* x or y
Or(x, y) == IF Truthy(x) THEN x ELSE y

\* d.get(k, default) of a dict
Get(d, k, default) == IF k \in DOMAIN d.v THEN d.v[k] ELSE default

\* str(x): the text of a string, and for the other values a text that is none of
\* the keywords of the payload
Str(x) == IF x.t = "str" THEN x.v ELSE "<repr>"

\* the numeric strings of the model
ParseNumber(s) ==
    CASE s = "50" -> [ok |-> TRUE, v |-> 50]
      [] s = "2" -> [ok |-> TRUE, v |-> 2]
      [] s = "0" -> [ok |-> TRUE, v |-> 0]
      [] s = "-50" -> [ok |-> TRUE, v |-> -50]
      [] OTHER -> [ok |-> FALSE]

\* float(x) and int(x): ok is FALSE where Python raises ValueError or TypeError
Number(x) ==
    CASE x.t = "int" -> [ok |-> TRUE, v |-> x.v]
      [] x.t = "str" -> ParseNumber(x.v)
      [] OTHER -> [ok |-> FALSE]

\* the rewriting of a trailing Z or +HHMM offset followed by datetime.fromisoformat,
\* on the strings of the model; ok is FALSE where fromisoformat raises ValueError
fromisoformat(s) ==
    CASE s = "2025-12-02T14:31:19+0000" ->
            [ok |-> TRUE, v |-> [wall |-> 1, micro |-> 0, off |-> 0]]
      [] s = "2025-12-02T14:31:20Z" ->
            [ok |-> TRUE, v |-> [wall |-> 2, micro |-> 0, off |-> 0]]
      [] s = "2025-12-19T00:00:00+0000" ->
            [ok |-> TRUE, v |-> [wall |-> 1500, micro |-> 0, off |-> 0]]
      [] s = "2025-12-02T14:31:19Z" ->
            [ok |-> TRUE, v |-> [wall |-> 1, micro |-> 0, off |-> 0]]
      [] s = "2025-12-02T09:31:19-0500" ->
            [ok |-> TRUE, v |-> [wall |-> 1 - 18000, micro |-> 0, off |-> -18000]]
      [] s = "2025-12-02T14:31:19.500Z" ->
            [ok |-> TRUE, v |-> [wall |-> 1, micro |-> 500000, off |-> 0]]
      [] OTHER -> [ok |-> FALSE]

\* datetime.date() of the datetimes fromisoformat returns
DateOf(dt) ==
    IF dt.wall = 1500 THEN [year |-> 2025, month |-> 12, day |-> 19]
    ELSE [year |-> 2025, month |-> 12, day |-> 2]

\* an Optional result: nothing (None), or a value
Nothing == [raised |-> FALSE, ok |-> FALSE]

Some(v) == [raised |-> FALSE, ok |-> TRUE, v |-> v]

Raised == [raised |-> TRUE]

\* _parse_schwab_datetime: a datetime, None, or the AttributeError of
\* (dt_str or "").strip() on a value that is not a string
_parse_schwab_datetime(x) ==
    IF ~Truthy(x) THEN Nothing
    ELSE IF x.t # "str" THEN Raised
    ELSE IF fromisoformat(x.v).ok THEN Some(fromisoformat(x.v).v)
    ELSE Nothing

\* _parse_occ_option_symbol: (expiration, strike), None, or the TypeError of len(s)
\* on a number; a string shorter than 21 characters and a list give None
_parse_occ_option_symbol(x) ==
    IF ~Truthy(x) THEN Nothing
    ELSE IF x.t = "int" THEN Raised
    ELSE IF x.t # "str" THEN Nothing
    ELSE IF x.v = "XYZ   251219P00050000"
    THEN Some([expiration |-> [year |-> 2025, month |-> 12, day |-> 19], strike |-> 50])
    ELSE IF x.v = "XYZ   251219P00000000"
    THEN Some([expiration |-> [year |-> 2025, month |-> 12, day |-> 19], strike |-> 0])
    ELSE Nothing

\* substring and prefix tests on the keywords of the payload
ContainsOPTION(s) == s \in {"OPTION"}

ContainsBUY(s) == s \in {"BUY", "BUY_TO_OPEN", "BUY_TO_CLOSE"}

ContainsSELL(s) == s \in {"SELL", "SELL_TO_OPEN", "SELL_TO_CLOSE"}

ContainsOPEN(s) == s \in {"OPEN", "OPENING"}

ContainsCLOSE(s) == s \in {"CLOSE", "CLOSING"}

StartsWithC(s) == s \in {"C", "CALL"}

(***************************************************************************)
(* Schwab JSON -> TradeEvent normalizer.                                   *)
(***************************************************************************)
\* fill_price = float(exec_legs[0].get("price", 0.0) or 0.0) inside try/except: pass
ExecutionPrice(exec_legs, fill_price) ==
    IF exec_legs.t # "list" THEN fill_price
    ELSE IF exec_legs.v[1].t # "dict" THEN fill_price
    ELSE LET n == Number(Or(Get(exec_legs.v[1], "price", JInt(0)), JInt(0)))
         IN  IF n.ok THEN n.v ELSE fill_price

\* the loop over orderActivityCollection from its i-th entry on
RECURSIVE ActivityPrice(_, _, _)
ActivityPrice(acts, i, fill_price) ==
    IF i > Len(acts) THEN [raised |-> FALSE, price |-> fill_price]
    ELSE IF acts[i].t # "dict" THEN Raised
    ELSE IF Upper(Str(Get(acts[i], "activityType", JStr("")))) # "EXECUTION"
    THEN ActivityPrice(acts, i + 1, fill_price)
    ELSE LET exec_legs == Or(Get(acts[i], "executionLegs", JNone), JList(<<>>))
         IN  IF ~Truthy(exec_legs) THEN ActivityPrice(acts, i + 1, fill_price)
             ELSE IF ExecutionPrice(exec_legs, fill_price) > 0
             THEN [raised |-> FALSE, price |-> ExecutionPrice(exec_legs, fill_price)]
             ELSE ActivityPrice(acts, i + 1, ExecutionPrice(exec_legs, fill_price))

\* FillPrice taking the order-level price first and the executions after it
FillPriceOrderFirst(order) ==
    LET acts == Or(Get(order, "orderActivityCollection", JNone), JList(<<>>))
        fromActs == IF acts.t = "list" THEN ActivityPrice(acts.v, 1, 0)
                    ELSE [raised |-> FALSE, price |-> 0]
        n == Number(Or(Get(order, "price", JInt(0)), JInt(0)))
    IN  IF fromActs.raised THEN Raised
        ELSE IF n.ok /\ n.v > 0 THEN [raised |-> FALSE, price |-> n.v]
        ELSE fromActs

\* the fill price of an order: the first positive execution price, else the order's
FillPrice(order) ==
    LET acts == Or(Get(order, "orderActivityCollection", JNone), JList(<<>>))
        fromActs == IF acts.t = "list" THEN ActivityPrice(acts.v, 1, 0)
                    ELSE [raised |-> FALSE, price |-> 0]
        n == Number(Or(Get(order, "price", JInt(0)), JInt(0)))
    IN  IF fromActs.raised THEN Raised
        ELSE IF fromActs.price > 0 THEN fromActs
        ELSE [raised |-> FALSE, price |-> IF n.ok THEN n.v ELSE 0]

\* "if expiration is None: expiration = exp_from_sym" and the same for the strike,
\* made wrong: the value decoded from the symbol replaces the structured one
FromSymbolAlways(field, parsed, name) ==
    IF ~parsed.raised /\ parsed.ok THEN Some(parsed.v[name]) ELSE field

\* "if expiration is None: expiration = exp_from_sym" and the same for the strike:
\* the value decoded from the symbol fills a field that is still None
FromSymbol(field, parsed, name) ==
    IF ~field.ok /\ parsed.ok THEN Some(parsed.v[name]) ELSE field

\* the body of the loop over orderLegCollection for one leg: the event it appends
\* (ok), nothing where it continues, or the exception it raises
NormalizeLeg(leg, trade_dt, fill_price, order_id) ==
    IF leg.t # "dict" THEN Raised
    ELSE
    LET leg_type == Upper(Str(Get(leg, "orderLegType", JStr(""))))
        instr == Or(Get(leg, "instrument", JNone), JDict(<<>>))
    IN
    IF instr.t # "dict" THEN Raised
    ELSE
    LET asset_type == Upper(Str(Get(instr, "assetType", JStr(""))))
        put_call == Get(instr, "putCall", JNone)
        option_type == IF StartsWithC(Upper(Str(put_call))) THEN "CALL" ELSE "PUT"
        underlying == Or(Get(instr, "underlyingSymbol", JNone), Get(instr, "symbol", JNone))
        exp_str == Or(Get(instr, "maturityDate", JNone), Get(instr, "expirationDate", JNone))
        exp_dt == _parse_schwab_datetime(exp_str)
        expiration1 == IF ~exp_dt.raised /\ exp_dt.ok THEN Some(DateOf(exp_dt.v)) ELSE Nothing
        raw_strike == Get(instr, "strikePrice", JNone)
        strike1 == IF raw_strike.t # "NoneType" /\ Number(raw_strike).ok
                   THEN Some(Number(raw_strike).v) ELSE Nothing
        occ_sym == Get(instr, "symbol", JNone)
        parsed == _parse_occ_option_symbol(occ_sym)
        expiration == FromSymbol(expiration1, parsed, "expiration")
        strike == FromSymbol(strike1, parsed, "strike")
        n == Number(Or(Get(leg, "quantity", JInt(0)), JInt(0)))
        quantity == IF n.ok THEN Abs(n.v) ELSE 0
        instruction == Upper(Str(Get(leg, "instruction", JStr(""))))
        pos_effect == Upper(Str(Get(leg, "positionEffect", JStr(""))))
    IN
    IF ~ContainsOPTION(leg_type) /\ asset_type # "OPTION" THEN Nothing
    ELSE IF ~Truthy(put_call) THEN Nothing
    ELSE IF ~Truthy(underlying) THEN Nothing
    ELSE IF (~expiration1.ok \/ ~strike1.ok) /\ parsed.raised THEN Raised
    ELSE IF ~expiration.ok \/ ~strike.ok THEN Nothing
    ELSE IF quantity <= 0 THEN Nothing
    ELSE IF ~ContainsBUY(instruction) /\ ~ContainsSELL(instruction) THEN Nothing
    ELSE Some([symbol |-> Str(underlying), option_type |-> option_type,
               strike |-> strike.v, expiration |-> expiration.v,
               direction |-> IF ContainsBUY(instruction) THEN "BUY" ELSE "SELL",
               open_close |-> IF ContainsOPEN(pos_effect) THEN "OPENING"
                              ELSE IF ContainsCLOSE(pos_effect) THEN "CLOSING"
                              ELSE "UNKNOWN",
               quantity |-> quantity, price |-> fill_price, commissions |-> 0,
               fees |-> 0, trade_datetime |-> trade_dt, underlying_price |-> None,
               schwab_order_id |-> order_id,
               schwab_leg_id |-> IF "legId" \in DOMAIN leg.v
                                 THEN Str(Get(leg, "legId", JStr(""))) ELSE None])

\* the loop over orderLegCollection from its i-th leg on
RECURSIVE NormalizeLegs(_, _, _, _, _, _)
NormalizeLegs(legs, i, trade_dt, fill_price, order_id, events) ==
    IF i > Len(legs) THEN [raised |-> FALSE, events |-> events]
    ELSE LET r == NormalizeLeg(legs[i], trade_dt, fill_price, order_id)
         IN  IF r.raised THEN Raised
             ELSE NormalizeLegs(legs, i + 1, trade_dt, fill_price, order_id,
                                IF r.ok THEN Append(events, r.v) ELSE events)

\* the body of the loop over raw for one order
NormalizeOrder(order, events) ==
    IF order.t # "dict" THEN Raised
    ELSE
    LET status == Upper(Str(Get(order, "status", JStr(""))))
        entered_time_str == Or(Get(order, "enteredTime", JNone), Get(order, "closeTime", JNone))
        trade_dt == _parse_schwab_datetime(entered_time_str)
        legs == Or(Get(order, "orderLegCollection", JNone), JList(<<>>))
        fill_price == FillPrice(order)
        order_id == IF "orderId" \in DOMAIN order.v
                    THEN Str(Get(order, "orderId", JStr(""))) ELSE None
    IN
    IF status # "FILLED" THEN [raised |-> FALSE, events |-> events]
    ELSE IF trade_dt.raised THEN Raised
    ELSE IF ~trade_dt.ok THEN [raised |-> FALSE, events |-> events]
    ELSE IF legs.t # "list" THEN [raised |-> FALSE, events |-> events]
    ELSE IF fill_price.raised THEN Raised
    ELSE NormalizeLegs(legs.v, 1, trade_dt.v, fill_price.price, order_id, events)

\* the loop over raw from its i-th order on
RECURSIVE NormalizeOrders(_, _, _)
NormalizeOrders(raw, i, events) ==
    IF i > Len(raw) THEN [raised |-> FALSE, events |-> events]
    ELSE LET r == NormalizeOrder(raw[i], events)
         IN  IF r.raised THEN Raised ELSE NormalizeOrders(raw, i + 1, r.events)

\* normalize_orders_json: the list it returns, or the exception that leaves it
normalize_orders_json(raw) ==
    IF raw.t # "list" THEN [raised |-> FALSE, events |-> <<>>]
    ELSE NormalizeOrders(raw.v, 1, <<>>)

(***************************************************************************)
(* The normalizer on its own, on payloads made of well-formed orders and   *)
(* one order that departs from them in one place: a value of another type, *)
(* a missing key, or an entry that is not a mapping.                       *)
(***************************************************************************)
MaxOrders == 2

\* a dict with one key set, and with one key removed
With(f, k, v) == [x \in DOMAIN f \cup {k} |-> IF x = k THEN v ELSE f[x]]

Without(f, k) == [x \in DOMAIN f \ {k} |-> f[x]]

GoodInstrument ==
    [assetType |-> JStr("OPTION"), putCall |-> JStr("PUT"),
     underlyingSymbol |-> JStr("XYZ"), symbol |-> JStr("XYZ   251219P00050000"),
     strikePrice |-> JInt(50), maturityDate |-> JStr("2025-12-19T00:00:00+0000")]

GoodLeg ==
    [orderLegType |-> JStr("OPTION"), instrument |-> JDict(GoodInstrument),
     quantity |-> JInt(2), instruction |-> JStr("SELL_TO_OPEN"),
     positionEffect |-> JStr("OPENING")]

GoodOrder ==
    [status |-> JStr("FILLED"), enteredTime |-> JStr("2025-12-02T14:31:19+0000"),
     orderLegCollection |-> JList(<<JDict(GoodLeg)>>), price |-> JInt(150)]

\* a second well-formed order, filled at the price of its execution
OtherOrder ==
    [status |-> JStr("filled"), closeTime |-> JStr("2025-12-02T14:31:20Z"),
     orderLegCollection |->
        JList(<<JDict([orderLegType |-> JStr("OPTION"),
                       instrument |-> JDict([putCall |-> JStr("CALL"),
                                             symbol |-> JStr("XYZ   251219P00050000")]),
                       quantity |-> JStr("2"), instruction |-> JStr("BUY_TO_CLOSE")])>>),
     orderActivityCollection |->
        JList(<<JDict([activityType |-> JStr("EXECUTION"),
                       executionLegs |-> JList(<<JDict([price |-> JInt(50)])>>)])>>)]

WellFormedOrders == {JDict(GoodOrder), JDict(OtherOrder)}

\* a maturity date that is not the one the symbol of GoodInstrument encodes
OtherMaturity == JStr("2025-12-02T14:31:19+0000")

\* the values a field is replaced by
OtherValues ==
    {JNone, JStr(""), JStr("abc"), JStr("0"), JStr("-50"), JInt(0), JInt(5), JInt(-50),
     JList(<<>>), JList(<<JNone>>), JDict(<<>>), JStr("XYZ   251219P00000000")}

\* f with one of its keys removed or set to another value
Departures(f) ==
    {Without(f, k) : k \in DOMAIN f} \cup {With(f, k, v) : k \in DOMAIN f, v \in OtherValues}

\* an entry of orderActivityCollection with the prices of its execution legs
Activity(type, prices) ==
    JDict([activityType |-> JStr(type),
           executionLegs |-> JList([i \in 1..Len(prices) |->
                                      JDict([price |-> JInt(prices[i])])])])

Activities ==
    {Activity(type, prices) : type \in {"EXECUTION", "ORDER_ACTION"},
                              prices \in {<<0>>, <<50>>, <<70>>, <<0, 50>>, <<-50>>}}

\* an order of two option legs with one or two activities
ExecutedOrder(acts) ==
    With(With(GoodOrder, "orderActivityCollection", JList(acts)),
         "orderLegCollection",
         JList(<<JDict(GoodLeg),
                 JDict(With(With(GoodLeg, "instruction", JStr("BUY_TO_CLOSE")),
                            "quantity", JInt(1)))>>))

OrderShapes ==
    {JNone, JStr("abc"), JDict(GoodOrder)}
    \cup {JDict(ExecutedOrder(acts)) : acts \in [1..1 -> Activities] \cup [1..2 -> Activities]}
    \cup {JDict(o) : o \in Departures(GoodOrder)}
    \cup {JDict(With(GoodOrder, "orderActivityCollection", v)) :
            v \in {JList(<<JStr("abc")>>),
                   JList(<<JDict([activityType |-> JStr("EXECUTION"),
                                  executionLegs |-> JList(<<JStr("abc")>>)])>>)}}
    \cup {JDict(With(GoodOrder, "orderLegCollection", JList(<<JDict(GoodLeg), l>>))) :
            l \in {JNone, JStr("abc")}}
    \cup {JDict(With(GoodOrder, "orderLegCollection", JList(<<JDict(l)>>))) :
            l \in Departures(GoodLeg)}
    \cup {JDict(With(GoodOrder, "orderLegCollection",
                     JList(<<JDict(With(GoodLeg, "instrument", JDict(i)))>>))) :
            i \in Departures(GoodInstrument)
                  \cup {With(Without(GoodInstrument, "strikePrice"), "symbol", v) :
                          v \in {JInt(5), JStr("XYZ   251219P00000000")}}
                  \cup {With(GoodInstrument, "maturityDate", OtherMaturity),
                        With(Without(GoodInstrument, "strikePrice"),
                             "maturityDate", OtherMaturity),
                        With(Without(GoodInstrument, "maturityDate"),
                             "expirationDate", OtherMaturity),
                        With(Without(GoodInstrument, "maturityDate"),
                             "strikePrice", JInt(5))}}

\* the payloads: values that are not a list, and lists of well-formed orders with
\* one order of any shape among them
Payloads ==
    {JNone, JStr("error"), JDict(<<>>)}
    \cup {JList(<<>>)}
    \cup UNION {{JList([j \in 1..n |-> IF j = k THEN o ELSE w]) :
                    k \in 1..n, o \in OrderShapes, w \in WellFormedOrders} :
                n \in 1..MaxOrders}

InitNormalizer ==
    /\ InitLedger
    /\ uniqueIdx = TRUE
    /\ arg \in Payloads
    /\ ret = NoResult

\* events = normalize_orders_json(acct, raw_orders)
Normalize ==
    LET r == normalize_orders_json(arg)
    IN  /\ ~ret.done
        /\ ret' = IF r.raised THEN [done |-> TRUE, raised |-> TRUE]
                  ELSE [done |-> TRUE, raised |-> FALSE, events |-> r.events]
        /\ UNCHANGED <<positions, trades, uniqueIdx, pending, last, arg>>

SpecNormalizer == InitNormalizer /\ [][Normalize]_vars

(***************************************************************************)
(* One account of main: the orders of the account are normalized, then     *)
(* apply_trade_event_to_db is called for each event in turn, with the      *)
(* backfill as the only writer.                                            *)
(***************************************************************************)
MaxSync == 2

\* enteredTime of the orders: one instant written with Z, with +0000 and with the
\* offset -0500, half a second after it, and the second after it
TimeStrings ==
    {"2025-12-02T14:31:19+0000", "2025-12-02T14:31:19Z", "2025-12-02T09:31:19-0500",
     "2025-12-02T14:31:19.500Z", "2025-12-02T14:31:20Z"}

\* orderId and legId of an order and its leg: absent, or one of two pairs
BrokerIds == {<<>>, <<"1001", "1">>, <<"1002", "2">>}

\* a filled order of one leg: an opening sale, or the purchase that closes it
SyncOrder(ts, ids, sale) ==
    LET side == IF sale THEN GoodLeg
                ELSE With(With(GoodLeg, "instruction", JStr("BUY_TO_CLOSE")),
                          "positionEffect", JStr("CLOSING"))
        leg == IF ids = <<>> THEN side ELSE With(side, "legId", JStr(ids[2]))
        order == With(With(GoodOrder, "enteredTime", JStr(ts)),
                      "orderLegCollection", JList(<<JDict(leg)>>))
    IN  JDict(IF ids = <<>> THEN order ELSE With(order, "orderId", JStr(ids[1])))

SyncOrders == {SyncOrder(ts, ids, sale) : ts \in TimeStrings, ids \in BrokerIds,
                                         sale \in BOOLEAN}

SyncPayloads == {JList(q) : q \in UNION {[1..n -> SyncOrders] : n \in 1..MaxSync}}

InitSync ==
    /\ InitLedger
    /\ uniqueIdx = TRUE
    /\ arg \in SyncPayloads
    /\ ret = NoResult

\* events = normalize_orders_json(acct, raw_orders)
SyncNormalize(dry_run) ==
    LET r == normalize_orders_json(arg)
    IN  /\ ret = NoResult
        /\ ret' = IF r.raised THEN [done |-> TRUE, raised |-> TRUE]
                  ELSE [done |-> Len(r.events) = 0, raised |-> FALSE,
                        events |-> r.events, next |-> 1, dry_run |-> dry_run]
        /\ UNCHANGED <<positions, trades, uniqueIdx, pending, last, arg>>

\* one turn of "for ev in events: apply_trade_event_to_db(conn, ev, dry_run=...)"
SyncApply ==
    /\ ret # NoResult
    /\ ~ret.done
    /\ LET r == apply_trade_event_to_db(positions, trades, ret.events[ret.next],
                                        ret.dry_run, uniqueIdx)
       IN  /\ positions' = r.positions
           /\ trades' = r.trades
           /\ last' = r.report
           /\ ret' = IF r.report.outcome = "raised"
                     THEN [done |-> TRUE, raised |-> TRUE]
                     ELSE [ret EXCEPT !.next = @ + 1,
                                      !.done = ret.next = Len(ret.events)]
    /\ UNCHANGED <<uniqueIdx, pending, arg>>

NextSync == (\E dry_run \in BOOLEAN : SyncNormalize(dry_run)) \/ SyncApply

SpecSync == InitSync /\ [][NextSync]_vars

(***************************************************************************)
(* find_or_create_position_id on its own, on the tables a database file    *)
(* can hold: rows of any status, and rows that share an identity where the *)
(* schema has no unique index on it.                                       *)
(***************************************************************************)
MaxRows == 3

StoredStatuses == {"OPEN", "EXPIRED", "CLOSED", "ROLLED"}

\* the rows of the table: a position of two contracts sold at 1.50
MatcherRows ==
    [symbol : Symbols, strategy : {"ShortPut", "LongCall"}, contracts : {-2},
     status : StoredStatuses, strike : Strikes, expiration : {"2025-12-19"},
     entry_price : {150}, mark : {140}, total_credit : {30000}, total_debit : {0},
     commissions : {65}, fees : {2}, entry_date : {1}, last_updated : {1}]

MatcherTables == UNION {[1..n -> MatcherRows] : n \in 0..MaxRows}

\* the events the matcher is called with: the direction is BUY or SELL, as the
\* resolver requires before the matcher is reached
MatcherEvents ==
    {ev \in TradeEvent({"BUY", "SELL"}, {"OPENING"}, {50},
                       {[wall |-> 2, micro |-> 0, off |-> 0]}) : ev.quantity = 2}

\* two rows of the table have the same identity
SharedIdentity(pos) ==
    \E i, j \in 1..Len(pos) :
        i # j /\ SameIdentity(pos[i], pos[j].symbol, pos[j].strategy, pos[j].strike,
                              pos[j].expiration)

InitMatcher ==
    /\ positions \in MatcherTables
    /\ trades = EmptyBag
    /\ pending = NoCall
    /\ last = NoReport
    /\ uniqueIdx \in BOOLEAN
    /\ SharedIdentity(positions) => ~uniqueIdx
    /\ arg = None
    /\ ret = NoResult

\* pos_id = find_or_create_position_id(conn, ev)
FindOrCreate(ev) ==
    LET found == find_or_create_position_id(positions, ev, uniqueIdx)
    IN  /\ ret = NoResult
        /\ arg' = [ev |-> ev, positions |-> positions]
        /\ positions' = found.positions
        /\ ret' = [done |-> TRUE, raised |-> found.raised, id |-> found.id,
                   created |-> found.created]
        /\ UNCHANGED <<trades, uniqueIdx, pending, last>>

NextMatcher == \E ev \in MatcherEvents : FindOrCreate(ev)

SpecMatcher == InitMatcher /\ [][NextMatcher]_vars

(***************************************************************************)
(* Analytics: analyze_position and run of analytics/portfolio_registry.py. *)
(* Prices are in cents and amounts in dollars, so that                     *)
(* (entry_price - mark) * contracts * 100 dollars is the integer           *)
(* (entry - mark) * contracts.  Percentages are kept in hundredths of a    *)
(* percent, the two decimals analyze_position rounds its figures to.       *)
(***************************************************************************)
\* dt.date.today(), as a day number
Today == 1000

\* the nearest integer to a / b, for b > 0
RoundDiv(a, b) ==
    IF a >= 0 THEN (2 * a + b) \div (2 * b) ELSE -((2 * (-a) + b) \div (2 * b))

\* the nearest integer to the square root of n
RECURSIVE Floor2(_, _, _)
Floor2(n, lo, hi) ==
    IF lo >= hi THEN lo
    ELSE LET mid == (lo + hi + 1) \div 2
         IN  IF mid * mid <= n THEN Floor2(n, mid, hi) ELSE Floor2(n, lo, mid - 1)

RoundSqrt(n) ==
    LET r == Floor2(n, 0, 46340)
    IN  IF n - r * r <= r THEN r ELSE r + 1

\* float(row.get(f) or default): the default stands in for a missing value and for 0
Field(row, f, default) ==
    IF f \in DOMAIN row /\ row[f] # 0 THEN row[f] ELSE default

\* dt.datetime.strptime(row["entry_date"], "%Y-%m-%d").date(): ValueError when the
\* text carries a time of day
strptime(entry_date) ==
    IF entry_date.time THEN [raised |-> TRUE] ELSE [raised |-> FALSE, day |-> entry_date.day]

\* x ** (365 / age_days) for x = base / 10000, times 10000: a float, or the complex
\* number Python returns for a negative x and an exponent that is not an integer
Power(base, age_days) ==
    CASE age_days = 365 -> [complex |-> FALSE, v |-> base]
      [] age_days = 730 ->
            IF base < 0 THEN [complex |-> TRUE]
            ELSE [complex |-> FALSE, v |-> RoundSqrt(10000 * base)]

\* max(min(x, 500), -500)
Clamp(x) == IF x > 50000 THEN 50000 ELSE IF x < -50000 THEN -50000 ELSE x

\* ann = 0.0; if age_days > 0: ann = ((1 + pct / 100) ** (365 / age_days) - 1) * 100;
\* ann = max(min(ann, 500), -500), where comparing a complex number raises TypeError
Annualized(pct, age_days) ==
    IF age_days <= 0 THEN [raised |-> FALSE, v |-> 0]
    ELSE IF Power(10000 + pct, age_days).complex THEN [raised |-> TRUE]
    ELSE [raised |-> FALSE, v |-> Clamp(Power(10000 + pct, age_days).v - 10000)]

\* analyze_position: the figures it returns, or None where its except clause
\* catches an exception
analyze_position(row) ==
    LET entry_price == Field(row, "entry_price", 0)
        mark == Field(row, "mark", 0)
        contracts == Field(row, "contracts", 1)
        account_size == Field(row, "account_size", 1)
        entry_date == strptime(row.entry_date)
        age_days == Today - entry_date.day
        pl == (entry_price - mark) * contracts
        exposure == Abs(entry_price * contracts)
        credit == entry_price * contracts
        ret_pct == IF entry_price # 0 THEN RoundDiv(pl * 10000, exposure) ELSE 0
        ann_ret == Annualized(ret_pct, age_days)
        roc == IF exposure - credit # 0 THEN RoundDiv(pl * 10000, exposure - credit) ELSE 0
        ann_roc == Annualized(roc, age_days)
    IN  IF entry_date.raised \/ ann_ret.raised \/ ann_roc.raised THEN [ok |-> FALSE]
        ELSE [ok |-> TRUE, Contracts |-> contracts, Age |-> age_days, PL |-> pl,
              Return |-> ret_pct, AnnRet |-> ann_ret.v, Credit |-> credit,
              Exposure |-> exposure, ROC |-> roc, AnnROC |-> ann_roc.v,
              ExposurePct |-> IF account_size > 0
                              THEN RoundDiv(exposure * 10000, account_size) ELSE 0]

\* the rows of the positions table the analytics is run on; account_size is a
\* column the table may not have
AnalyticsRows ==
    LET base == [symbol : Symbols, entry_price : {0, 100, 164}, mark : {50, 149, 250, 400},
                 contracts : {-4, -1, 0, 1, 2},
                 entry_date : [day : {Today, Today - 365, Today - 730}, time : BOOLEAN]]
    IN  base \cup {With(r, "account_size", a) : r \in base, a \in {0, -5, 100000}}

\* fetch_positions with the connection used for a write as well
fetch_positions_stamping(pos) ==
    [positions |-> [i \in 1..Len(pos) |->
                       [f \in DOMAIN pos[i] \cup {"last_updated"} |->
                           IF f = "last_updated" THEN Today ELSE pos[i][f]]],
     df |-> pos]

\* fetch_positions: SELECT * FROM positions on a connection that is then closed; the
\* table after it and the frame it returns
fetch_positions(pos) == [positions |-> pos, df |-> pos]

\* how run ends: with a warning when there is nothing to show, else with the
\* KeyError of out[cols], whose "Curr IV %" is no key of analyze_position's result
RunOutcome(analysis) ==
    IF Len(analysis) = 0 THEN "no positions"
    ELSE IF \A i \in 1..Len(analysis) : ~analysis[i].ok THEN "no valid analyses"
    ELSE "KeyError"

InitAnalytics ==
    /\ positions \in {<<>>} \cup {<<r>> : r \in AnalyticsRows}
    /\ trades = EmptyBag
    /\ pending = NoCall
    /\ last = NoReport
    /\ uniqueIdx = TRUE
    /\ arg = None
    /\ ret = NoResult

\* run of portfolio_registry.py
RunAnalytics ==
    LET fetched == fetch_positions(positions)
        analysis == [i \in 1..Len(fetched.df) |-> analyze_position(fetched.df[i])]
    IN  /\ ~ret.done
        /\ positions' = fetched.positions
        /\ ret' = [done |-> TRUE, analysis |-> analysis, outcome |-> RunOutcome(analysis)]
        /\ UNCHANGED <<trades, uniqueIdx, pending, last, arg>>

SpecAnalytics == InitAnalytics /\ [][RunAnalytics]_vars

(***************************************************************************)
(* The analytics run on the table the backfill has written.                *)
(***************************************************************************)
\* a row as fetch_positions reads it: entry_date is the text the ledger stored with
\* strftime("%Y-%m-%dT%H:%M:%SZ"), a date (a year before today) followed by a time
ReadRow(row) ==
    [f \in DOMAIN row |->
        IF f = "entry_date" THEN [day |-> Today - 365, time |-> TRUE] ELSE row[f]]

\* apply_trade_event_to_db, before the analytics is run
ApplyBeforeReport ==
    /\ ret = NoResult
    /\ \E ev \in WriterEvents, dry_run \in BOOLEAN : Apply(ev, dry_run)

\* run of portfolio_registry.py on the positions table of the ledger
AnalyzeLedger ==
    LET fetched == fetch_positions(positions)
        analysis == [i \in 1..Len(fetched.df) |-> analyze_position(ReadRow(fetched.df[i]))]
    IN  /\ ret = NoResult
        /\ positions' = fetched.positions
        /\ ret' = [done |-> TRUE, analysis |-> analysis, outcome |-> RunOutcome(analysis)]
        /\ UNCHANGED <<trades, uniqueIdx, pending, last, arg>>

NextReport == ApplyBeforeReport \/ AnalyzeLedger

SpecReport == Init /\ [][NextReport]_vars

(***************************************************************************)
(* The live updater: run of automation/python/live_update.py, one step per *)
(* position of its loop, in a process and in a child process started with  *)
(* a copy of its environment.  The environment, and the counts of the      *)
(* position reads and of the analytics subprocesses, are kept in arg; the  *)
(* run (its data frame, its place in the loop, the rows it started on and  *)
(* what each lookup returned) in ret.                                      *)
(***************************************************************************)
MaxLiveRows == 3

MaxRuns == 3

Procs == {"main", "child"}

\* the rows of the table the updater runs on
LiveRows ==
    {row \in MatcherRows : row.strategy = "ShortPut" /\ row.status \in {"OPEN", "CLOSED"}}

LiveTables == UNION {[1..n -> LiveRows] : n \in 0..MaxLiveRows}

\* the row of the option chain update_position has matched; a delta that is missing
\* or NaN is Nothing
ChainRows ==
    {[lastPrice |-> 120, impliedVolatility |-> 45, delta |-> Some(-30)],
     [lastPrice |-> 0, impliedVolatility |-> 0, delta |-> Nothing]}

\* what Yahoo Finance answers to one lookup
Lookups ==
    {[chain |-> "no_expiration"], [chain |-> "no_strike"], [chain |-> "raised"]}
    \cup {[chain |-> "found", row |-> row] : row \in ChainRows}

\* update_position: None where the expiration or the strike is not in the chain or
\* the fetch raises, and else (mark, iv, delta) with a missing delta as 0.0
update_position(lookup) ==
    IF lookup.chain # "found" THEN Nothing
    ELSE Some([mark |-> lookup.row.lastPrice, iv |-> lookup.row.impliedVolatility,
               delta |-> IF lookup.row.delta.ok THEN lookup.row.delta.v ELSE 0])

\* get_positions: SELECT id, symbol, strike, expiration FROM positions
get_positions(pos) ==
    [i \in 1..Len(pos) |->
        [id |-> i, symbol |-> pos[i].symbol, strike |-> pos[i].strike,
         expiration |-> pos[i].expiration]]

\* if os.environ.get("ORACLE_LIVE_ACTIVE") == "1", with the test left out
DuplicateInvocationNever(value) == FALSE

\* if os.environ.get("ORACLE_LIVE_ACTIVE") == "1"
DuplicateInvocation(value) == value = "1"

\* the for loop of run ended at the first position without a quote
NextPositionUntilMiss(run, res) == IF res.ok THEN run.next + 1 ELSE Len(run.df) + 1

\* for _, pos in df.iterrows(): the loop goes on to the next row whatever res was
NextPosition(run, res) == run.next + 1

InitLive ==
    /\ positions \in LiveTables
    /\ trades = EmptyBag
    /\ pending = NoCall
    /\ last = NoReport
    /\ uniqueIdx = FALSE
    /\ arg = [environ |-> [p \in Procs |-> None], guarded |-> {}, runs |-> 0,
              reads |-> 0, spawned |-> 0]
    /\ ret = NoResult

\* run() up to its loop: the guard, the environment variable and get_positions
RunStart(p) ==
    LET df == get_positions(positions)
        run == [done |-> FALSE, proc |-> p, skipped |-> FALSE, df |-> df, next |-> 1,
                lookups |-> <<>>, before |-> positions, refreshed |-> FALSE]
    IN  /\ ret = NoResult \/ ret.done
        /\ arg.runs < MaxRuns
        /\ IF DuplicateInvocation(arg.environ[p])
           THEN /\ arg' = [arg EXCEPT !.runs = @ + 1]
                /\ ret' = [run EXCEPT !.done = TRUE, !.skipped = TRUE, !.df = <<>>]
                /\ last' = Report("run", "skipped", 0, TRUE)
           ELSE /\ arg' = [arg EXCEPT !.environ[p] = "1", !.guarded = @ \cup {p},
                                      !.runs = @ + 1, !.reads = @ + 1]
                /\ ret' = [run EXCEPT !.done = (df = <<>>)]
                /\ last' = Report("run", IF df = <<>> THEN "empty" ELSE "started", 0,
                                  df = <<>>)
        /\ UNCHANGED <<positions, trades, uniqueIdx, pending>>

\* one turn of the loop of run: update_position and, if it returned a quote, update_db
RunLoop(lookup) ==
    LET res == update_position(lookup)
        row_id == ret.df[ret.next].id
    IN  /\ ret # NoResult
        /\ ~ret.done
        /\ ret.next <= Len(ret.df)
        /\ IF res.ok
           THEN /\ positions' = update_db(positions, row_id, res.v.mark, res.v.iv,
                                          res.v.delta)
                /\ last' = Report("update_db", "updated",
                                  Cardinality(LiveUpdateMatches(positions, row_id)), FALSE)
           ELSE /\ last' = Report("update_position", lookup.chain, 0, TRUE)
                /\ UNCHANGED positions
        /\ ret' = [ret EXCEPT !.next = NextPosition(ret, res),
                              !.lookups = Append(@, [id |-> row_id, res |-> res])]
        /\ UNCHANGED <<trades, uniqueIdx, pending, arg>>

\* run_portfolio_refresh after the loop: portfolio_registry.py is started with a copy
\* of the environment in which ORACLE_LIVE_ACTIVE is 1
RunRefresh ==
    /\ ret # NoResult
    /\ ~ret.done
    /\ ret.next > Len(ret.df)
    /\ arg' = [arg EXCEPT !.spawned = @ + 1, !.environ["child"] = "1",
                          !.guarded = @ \cup {"child"}]
    /\ ret' = [ret EXCEPT !.done = TRUE, !.refreshed = TRUE]
    /\ last' = Report("run_portfolio_refresh", "spawned", 0, FALSE)
    /\ UNCHANGED <<positions, trades, uniqueIdx, pending>>

\* a child process is started: it has a copy of the environment of its parent
Fork ==
    /\ "child" \notin arg.guarded
    /\ arg.environ["child"] # arg.environ["main"]
    /\ arg' = [arg EXCEPT !.environ["child"] = arg.environ["main"],
                          !.guarded = IF "main" \in @ THEN @ \cup {"child"} ELSE @]
    /\ UNCHANGED <<positions, trades, uniqueIdx, pending, last, ret>>

NextLive ==
    \/ \E p \in Procs : RunStart(p)
    \/ \E lookup \in Lookups : RunLoop(lookup)
    \/ RunRefresh
    \/ Fork

SpecLive == InitLive /\ [][NextLive]_vars

(***************************************************************************)
(* TradeRegistry of automation/python/trade_registry.py: the data frame    *)
(* self.df and the CSV file at self.registry_path, both kept in arg.  A    *)
(* cell of the data frame carries its type; NaN is what read_csv makes of  *)
(* an empty field.  The file is its lines, the header first, each line the *)
(* sequence of its fields.                                                 *)
(***************************************************************************)
MaxRegistry == 3

MaxLoaded == 2

columns ==
    <<"Symbol", "Strategy", "Strike", "Expiration", "EntryPrice", "Mark", "EntryIV",
      "CurrentIV", "Delta", "AccountSize", "OpenDate">>

Columns == {columns[i] : i \in 1..Len(columns)}

NaN == [t |-> "float", v |-> "nan"]

RegistrySymbols == {"XYZ", "ABC"}

\* a row read_csv has loaded from a file the registry wrote
LoadedRows ==
    {[col \in Columns |->
        CASE col = "Symbol" -> JStr(symbol)
          [] col = "Strategy" -> JStr("ShortPut")
          [] col = "Strike" -> JInt(50)
          [] OTHER -> NaN] : symbol \in RegistrySymbols}

\* the tables read_csv can load; a file that was edited by hand may name a symbol twice
LoadedTables == UNION {[1..n -> LoadedRows] : n \in 0..MaxLoaded}

\* the keyword arguments add_trade is called with: with and without Symbol, with and
\* without Strike, and with a keyword that is no column
TradeKwargs ==
    UNION {{[k \in keys |->
               CASE k = "Symbol" -> JStr(symbol)
                 [] k = "Strike" -> JInt(55)
                 [] OTHER -> JStr("rolled")] : symbol \in RegistrySymbols} :
           keys \in {{"Symbol"}, {"Symbol", "Strike", "Notes"}, {"Strike"}}}

\* an element of self.df["Symbol"] != symbol: NaN differs from everything, and
\* everything differs from None
NotEqual(cell, value) ==
    IF cell = NaN \/ value = NaN \/ value = JNone THEN TRUE ELSE cell # value

\* add_trade appending the row without dropping the rows of its symbol
add_trade_appending(df, kwargs) ==
    Append(df, [col \in Columns |-> IF col \in DOMAIN kwargs THEN kwargs[col] ELSE JNone])

\* add_trade: the rows of other symbols, then the row of the keyword arguments
add_trade(df, kwargs) ==
    LET trade == [col \in Columns |-> IF col \in DOMAIN kwargs THEN kwargs[col] ELSE JNone]
        Others(row) == NotEqual(row["Symbol"], trade["Symbol"])
    IN  Append(SelectSeq(df, Others), trade)

\* remove_trade: self.df[self.df["Symbol"] != symbol]
remove_trade(df, symbol) ==
    LET Others(row) == NotEqual(row["Symbol"], symbol)
    IN  SelectSeq(df, Others)

\* a field as to_csv writes it: None and NaN as the empty field
CsvField(cell) ==
    CASE cell = JNone \/ cell = NaN -> ""
      [] cell.t = "int" -> ToString(cell.v)
      [] OTHER -> cell.v

\* self.df.to_csv(self.registry_path, index=False)
to_csv(df) ==
    <<columns>> \o [i \in 1..Len(df) |-> [c \in 1..Len(columns) |-> CsvField(df[i][columns[c]])]]

\* the registry after _load_or_initialize: the table of the file at registry_path,
\* or no row and a file of the header alone
InitRegistry ==
    /\ InitLedger
    /\ uniqueIdx = FALSE
    /\ \E df \in LoadedTables : arg = [df |-> df, registry_path |-> to_csv(df)]
    /\ ret = NoResult

AddTrade(kwargs) ==
    LET df == add_trade(arg.df, kwargs)
    IN  /\ Len(df) <= MaxRegistry
        /\ arg' = [df |-> df, registry_path |-> to_csv(df)]
        /\ ret' = [done |-> TRUE, op |-> "add_trade", kwargs |-> kwargs,
                   symbol |-> IF "Symbol" \in DOMAIN kwargs THEN kwargs["Symbol"] ELSE JNone,
                   before |-> arg.df]
        /\ UNCHANGED <<positions, trades, uniqueIdx, pending, last>>

RemoveTrade(symbol) ==
    LET df == remove_trade(arg.df, symbol)
    IN  /\ arg' = [df |-> df, registry_path |-> to_csv(df)]
        /\ ret' = [done |-> TRUE, op |-> "remove_trade", kwargs |-> <<>>,
                   symbol |-> symbol, before |-> arg.df]
        /\ UNCHANGED <<positions, trades, uniqueIdx, pending, last>>

NextRegistry ==
    \/ \E kwargs \in TradeKwargs : AddTrade(kwargs)
    \/ \E symbol \in RegistrySymbols : RemoveTrade(JStr(symbol))

SpecRegistry == InitRegistry /\ [][NextRegistry]_vars

(***************************************************************************)
(* Helpers of the properties.                                              *)
(***************************************************************************)
\* the rows of the trades table that refer to position i
TradesOf(trd, i) == {t \in BagToSet(trd) : t.position_id = i}

\* how many rows of the trades table carry this natural key
KeyCount(trd, key) ==
    LET rows == {t \in BagToSet(trd) : NaturalKey(t) = key}
        RECURSIVE Count(_)
        Count(S) == IF S = {} THEN 0
                    ELSE LET t == CHOOSE x \in S : TRUE
                         IN  CopiesIn(t, trd) + Count(S \ {t})
    IN  Count(rows)

\* the sum of the signed contracts of the rows of the trades table for position i
SignedSum(trd, i) ==
    LET RECURSIVE Sum(_)
        Sum(S) == IF S = {} THEN 0
                  ELSE LET t == CHOOSE x \in S : TRUE
                       IN  t.contracts * CopiesIn(t, trd) + Sum(S \ {t})
    IN  Sum(TradesOf(trd, i))

ShortStrategy(option_type) == IF option_type = "PUT" THEN "ShortPut" ELSE "ShortCall"

(***************************************************************************)
(* C1.  Idempotence of apply: from every reachable ledger state and for    *)
(* every event with a determinate action, a second                         *)
(* apply_trade_event_to_db(e, dry_run=False) right after the first leaves  *)
(* exactly one trade row with e's natural key and leaves the positions     *)
(* table (so the owner's contracts, total_credit, total_debit, commissions *)
(* and fees) as the first call left it.                                    *)
(***************************************************************************)
C1_ApplyIdempotent ==
    \A ev \in Events :
        LET action == derive_action_from_event(ev)
            r1 == apply_trade_event_to_db(positions, trades, ev, FALSE, uniqueIdx)
            owner == find_or_create_position_id(r1.positions, ev, uniqueIdx).id
            r2 == apply_trade_event_to_db(r1.positions, r1.trades, ev, FALSE, uniqueIdx)
            key == <<owner, strftime(ev.trade_datetime), action,
                     IF ActionSide(action) = "BUY" THEN ev.quantity ELSE -ev.quantity,
                     ev.price>>
        IN  action # None =>
              /\ KeyCount(r2.trades, key) = 1
              /\ r2.trades = r1.trades
              /\ \A f \in {"contracts", "total_credit", "total_debit", "commissions", "fees"} :
                    r2.positions[owner][f] = r1.positions[owner][f]

\* a second call has run and found the row of the first
C1_Witness ==
    /\ last.op = "apply"
    /\ last.outcome = "duplicate"
    /\ BagCardinality(trades) >= 1

(***************************************************************************)
(* C3.  Conservation of contracts: every position's contracts equals 0     *)
(* plus the sum of the signed contracts of the trade rows recorded for it. *)
(***************************************************************************)
C3_Conservation ==
    \A i \in 1..Len(positions) : positions[i].contracts = SignedSum(trades, i)

\* a position with two recorded fills that do not cancel
C3_Witness ==
    \E i \in 1..Len(positions) :
        /\ Cardinality(TradesOf(trades, i)) = 2
        /\ positions[i].contracts = -3

(***************************************************************************)
(* C7.  Dry run performs no writes: apply_trade_event_to_db with           *)
(* dry_run=True leaves the positions table and the trades table as they    *)
(* were.                                                                   *)
(***************************************************************************)
C7_DryRunNoWrites ==
    [][\A ev \in Events :
          Apply(ev, TRUE) => positions' = positions /\ trades' = trades]_vars

(***************************************************************************)
(* C9.  A closing event lands on the position its opening event created:   *)
(* applying a BUY/CLOSING event while an OPEN short position with the same *)
(* symbol, option kind, strike and expiration exists adds the event's      *)
(* signed delta and debit to that row and adds no position row.            *)
(***************************************************************************)
C9_CloseLandsOnOpener ==
    [][\A ev \in Events : \A i \in 1..Len(positions) :
          ( /\ Apply(ev, FALSE)
            /\ ev.direction = "BUY"
            /\ ev.open_close = "CLOSING"
            /\ positions[i].status = "OPEN"
            /\ SameIdentity(positions[i], ev.symbol, ShortStrategy(ev.option_type),
                            ev.strike, "2025-12-19") )
          => /\ Len(positions') = Len(positions)
             /\ positions'[i].contracts = positions[i].contracts + ev.quantity
             /\ positions'[i].total_debit =
                    positions[i].total_debit + ev.quantity * ev.price * 100]_vars

(***************************************************************************)
(* C10.  First opening event creates one fully-populated position: a       *)
(* SELL/OPENING event of quantity q and price p applied with               *)
(* dry_run=False when no position exists for its key adds exactly one      *)
(* position row, with strategy ShortPut for a PUT (ShortCall for a CALL),  *)
(* status OPEN, contracts = -q, total_credit = q*p*100, total_debit = 0,   *)
(* and exactly one trade row, which refers to it.                          *)
(***************************************************************************)
C10_FirstOpenCreates ==
    \A ev \in Events :
        LET r == apply_trade_event_to_db(positions, trades, ev, FALSE, uniqueIdx)
            new == Len(positions) + 1
        IN  ( /\ ev.direction = "SELL"
              /\ ev.open_close = "OPENING"
              /\ \A i \in 1..Len(positions) :
                    ~SameIdentity(positions[i], ev.symbol, ShortStrategy(ev.option_type),
                                  ev.strike, "2025-12-19") )
            => /\ Len(r.positions) = new
               /\ SubSeq(r.positions, 1, Len(positions)) = positions
               /\ r.positions[new].strategy = ShortStrategy(ev.option_type)
               /\ r.positions[new].status = "OPEN"
               /\ r.positions[new].contracts = -ev.quantity
               /\ r.positions[new].total_credit = ev.quantity * ev.price * 100
               /\ r.positions[new].total_debit = 0
               /\ BagCardinality(r.trades) = BagCardinality(trades) + 1
               /\ Cardinality(TradesOf(r.trades, new)) = 1

\* Scenario A has run on an empty ledger: 2 contracts sold to open at $1.50
C10_Witness ==
    /\ last.op = "apply"
    /\ last.outcome = "applied"
    /\ Len(positions) = 1
    /\ positions[1].strategy = "ShortPut"
    /\ positions[1].status = "OPEN"
    /\ positions[1].contracts = -2
    /\ positions[1].total_credit = 30000
    /\ positions[1].total_debit = 0
    /\ BagCardinality(trades) = 1

(***************************************************************************)
(* The resolver on its own: derive_action_from_event and the signed delta  *)
(* apply_trade_event_to_db computes from its result, on one event.         *)
(***************************************************************************)
InitResolver ==
    /\ InitLedger
    /\ uniqueIdx = TRUE
    /\ arg \in ResolverEvents
    /\ ret = NoResult

Resolve ==
    LET action == derive_action_from_event(arg)
    IN  /\ ~ret.done
        /\ ret' = [done |-> TRUE, action |-> action,
                   contracts |-> IF action = None THEN 0
                                 ELSE contracts_signed(action, arg.quantity)]
        /\ UNCHANGED <<positions, trades, uniqueIdx, pending, last, arg>>

SpecResolver == InitResolver /\ [][Resolve]_vars

(***************************************************************************)
(* The two mappings of an event to an action and a signed quantity side by *)
(* side: map_event_to_action_and_contracts, and derive_action_from_event   *)
(* with the sign computation of apply_trade_event_to_db.                   *)
(***************************************************************************)
\* map_event_to_action_and_contracts: direction and open_close are compared as they
\* are, and what matches no rule is ("UNKNOWN", q)
map_event_to_action_and_contracts(ev) ==
    LET q == ev.quantity
    IN  IF ev.direction = "SELL" /\ ev.open_close = "OPENING"
        THEN [action |-> "SELL_OPEN", contracts |-> -q]
        ELSE IF ev.direction = "BUY" /\ ev.open_close = "OPENING"
        THEN [action |-> "BUY_OPEN", contracts |-> q]
        ELSE IF ev.direction = "BUY" /\ ev.open_close = "CLOSING"
        THEN [action |-> "BUY_CLOSE", contracts |-> q]
        ELSE IF ev.direction = "SELL" /\ ev.open_close = "CLOSING"
        THEN [action |-> "SELL_CLOSE", contracts |-> -q]
        ELSE [action |-> "UNKNOWN", contracts |-> q]

\* both mappings applied to the event
ResolveBoth ==
    LET action == derive_action_from_event(arg)
    IN  /\ ~ret.done
        /\ ret' = [done |-> TRUE,
                   derived |-> [action |-> action,
                                contracts |-> IF action = None THEN 0
                                              ELSE contracts_signed(action, arg.quantity)],
                   mapped |-> map_event_to_action_and_contracts(arg)]
        /\ UNCHANGED <<positions, trades, uniqueIdx, pending, last, arg>>

SpecResolvers == InitResolver /\ [][ResolveBoth]_vars

(***************************************************************************)
(* C8.  Classification is total and deterministic: the six (direction,     *)
(* qualifier) pairs of {BUY, SELL} x {OPENING, CLOSING, UNKNOWN} map as    *)
(* the table says, every BUY action carries +quantity and every SELL       *)
(* action -quantity, and the result is None for every direction that is    *)
(* not BUY or SELL once upper-cased (the code upper-cases the direction,   *)
(* so "buy" and "sell" resolve as BUY and SELL do).                        *)
(***************************************************************************)
C8_ResolverTable ==
    ret.done =>
        /\ (arg.direction = "SELL" /\ arg.open_close = "OPENING") => ret.action = "SELL_OPEN"
        /\ (arg.direction = "BUY"  /\ arg.open_close = "OPENING") => ret.action = "BUY_OPEN"
        /\ (arg.direction = "BUY"  /\ arg.open_close = "CLOSING") => ret.action = "BUY_CLOSE"
        /\ (arg.direction = "SELL" /\ arg.open_close = "CLOSING") => ret.action = "SELL_CLOSE"
        /\ (arg.direction = "SELL" /\ arg.open_close = "UNKNOWN") => ret.action = "SELL_OPEN"
        /\ (arg.direction = "BUY"  /\ arg.open_close = "UNKNOWN") => ret.action = "BUY_CLOSE"
        /\ arg.direction \notin {"BUY", "SELL", "buy", "sell"} => ret.action = None
        /\ ret.action \in {"BUY_OPEN", "BUY_CLOSE"} => ret.contracts = arg.quantity
        /\ ret.action \in {"SELL_OPEN", "SELL_CLOSE"} => ret.contracts = -arg.quantity
        /\ ret.action \in {"BUY_OPEN", "BUY_CLOSE", "SELL_OPEN", "SELL_CLOSE", None}

\* the UNKNOWN fallback has resolved a BUY of 2 contracts as closing a short
C8_Witness ==
    /\ ret.done
    /\ arg.direction = "BUY"
    /\ arg.open_close = "UNKNOWN"
    /\ arg.quantity = 2
    /\ ret.action = "BUY_CLOSE"
    /\ ret.contracts = 2

\* C8 as stated: the table, the signs, and None for every direction other than the
\* strings BUY and SELL
C8_NoneForOtherDirections ==
    ret.done =>
        /\ (arg.direction = "SELL" /\ arg.open_close = "OPENING") => ret.action = "SELL_OPEN"
        /\ (arg.direction = "BUY"  /\ arg.open_close = "OPENING") => ret.action = "BUY_OPEN"
        /\ (arg.direction = "BUY"  /\ arg.open_close = "CLOSING") => ret.action = "BUY_CLOSE"
        /\ (arg.direction = "SELL" /\ arg.open_close = "CLOSING") => ret.action = "SELL_CLOSE"
        /\ (arg.direction = "SELL" /\ arg.open_close = "UNKNOWN") => ret.action = "SELL_OPEN"
        /\ (arg.direction = "BUY"  /\ arg.open_close = "UNKNOWN") => ret.action = "BUY_CLOSE"
        /\ arg.direction \notin {"BUY", "SELL"} => ret.action = None
        /\ ret.action \in {"BUY_OPEN", "BUY_CLOSE"} => ret.contracts = arg.quantity
        /\ ret.action \in {"SELL_OPEN", "SELL_CLOSE"} => ret.contracts = -arg.quantity

(***************************************************************************)
(* C2.  Trade natural-key uniqueness: no two rows of the trades table      *)
(* share (position_id, trade_datetime, action, contracts, price), in any   *)
(* state the trade-writing operations reach.                               *)
(***************************************************************************)
C2_TradeKeyUnique ==
    \A t \in BagToSet(trades) : KeyCount(trades, NaturalKey(t)) = 1

(***************************************************************************)
(* C4.  Single live row per identity key: at most one position row with    *)
(* status OPEN or EXPIRED exists for any (symbol, strategy, strike,        *)
(* expiration).                                                            *)
(***************************************************************************)
C4_SingleLiveRow ==
    \A i, j \in 1..Len(positions) :
        ( /\ positions[i].status \in {"OPEN", "EXPIRED"}
          /\ positions[j].status \in {"OPEN", "EXPIRED"}
          /\ positions[i].symbol = positions[j].symbol
          /\ positions[i].strategy = positions[j].strategy
          /\ positions[i].strike = positions[j].strike
          /\ positions[i].expiration = positions[j].expiration )
        => i = j

\* the matcher has found the live row of a key a second time, next to a row of
\* another key
C4_Witness ==
    /\ last.op = "find_or_create"
    /\ last.outcome = "found"
    /\ Len(positions) = 2
    /\ positions[1].status = "OPEN"
    /\ positions[2].status = "OPEN"

(***************************************************************************)
(* C5.  Closed positions are immutable under apply: no step of             *)
(* apply_trade_event_to_db changes the contracts, total_credit,            *)
(* total_debit, commissions, fees or last_updated of a position whose      *)
(* status is CLOSED or ROLLED.                                             *)
(***************************************************************************)
C5_ClosedImmutableUnderApply ==
    [][BackfillStep =>
         \A i \in 1..Len(positions) :
            positions[i].status \in {"CLOSED", "ROLLED"} =>
               /\ DOMAIN positions'[i] = DOMAIN positions[i]
               /\ \A f \in DOMAIN positions[i] \cap
                        {"contracts", "total_credit", "total_debit", "commissions",
                         "fees", "last_updated"} :
                     positions'[i][f] = positions[i][f]]_vars

\* an apply has written its trade while its position had been closed in between
C5_Witness ==
    /\ last.op = "apply"
    /\ last.outcome = "applied"
    /\ last.rows = 0
    /\ \E i \in 1..Len(positions) :
          /\ positions[i].status = "CLOSED"
          /\ TradesOf(trades, i) # {}

(***************************************************************************)
(* C6.  Stale-target detection: whenever the status-conditioned position   *)
(* UPDATE of apply_trade_event_to_db affects zero rows, the call reports a *)
(* warning instead of completing as a normal successful apply.             *)
(***************************************************************************)
C6_StaleTargetWarned ==
    (last.op = "apply" /\ last.outcome = "applied" /\ last.rows = 0) => last.warn

(***************************************************************************)
(* C11.  Atomic application: no step of apply_trade_event_to_db commits a  *)
(* trade row without the position update of the same event (the owner's    *)
(* contracts moved by the row's signed contracts), and none commits a      *)
(* position update without the trade row.                                  *)
(***************************************************************************)
C11_AtomicApplication ==
    [][BackfillStep =>
         /\ BagCardinality(trades') > BagCardinality(trades) =>
               positions'[pending.pos_id].contracts =
                   positions[pending.pos_id].contracts
                   + contracts_signed(pending.action, pending.ev.quantity)
         /\ \A i \in 1..Len(positions) :
               positions'[i].contracts # positions[i].contracts =>
                   BagCardinality(trades') = BagCardinality(trades) + 1]_vars

(***************************************************************************)
(* C12.  Crash-and-replay safety: when a run of main over a batch stops at *)
(* any point (before or after any commit, inside the transaction of a      *)
(* trade, or after the batch completed) and main is then run again over    *)
(* the whole batch with dry_run=False, the positions and trades tables at  *)
(* the end equal those of one uninterrupted run of the batch from the      *)
(* ledger the first run started on.                                        *)
(***************************************************************************)
C12_CrashReplay ==
    (ret # NoResult /\ ret.crashed /\ ret.done) =>
        LET whole == main(arg.positions, arg.trades, arg.events, 1, FALSE, uniqueIdx)
        IN  /\ positions = whole.positions
            /\ trades = whole.trades

\* the first run stopped after it had committed its first event and before it
\* committed its second; the second run found the first recorded and applied the rest
C12_Witness ==
    /\ ret # NoResult
    /\ ret.crashed
    /\ ret.done
    /\ Len(arg.events) = 2
    /\ arg.events[1] # arg.events[2]
    /\ ret.outcomes = <<"duplicate", "applied">>
    /\ BagCardinality(trades) = 2

C14_NormalizerNeverRaises ==
    ret.done =>
        /\ ~ret.raised
        /\ arg.t = "list" =>
              \A j \in 1..Len(arg.v) :
                 arg.v[j] \in WellFormedOrders =>
                    \E i \in 1..Len(ret.events) :
                       ret.events[i] = normalize_orders_json(JList(<<arg.v[j]>>)).events[1]

(***************************************************************************)
(* C15.  TradeEvent invariant: every event normalize_orders_json emits has *)
(* quantity > 0, strike > 0, option kind CALL or PUT and direction BUY or  *)
(* SELL.                                                                   *)
(***************************************************************************)
C15_TradeEventInvariant ==
    (ret.done /\ ~ret.raised) =>
        \A i \in 1..Len(ret.events) :
           /\ ret.events[i].quantity > 0
           /\ ret.events[i].strike > 0
           /\ ret.events[i].option_type \in {"CALL", "PUT"}
           /\ ret.events[i].direction \in {"BUY", "SELL"}

(***************************************************************************)
(* C16.  Closed positions are frozen for every writer: no step of          *)
(* apply_trade_event_to_db, update_db, upsert_position_from_broker or      *)
(* update_contracts changes the contracts, status, total_credit or         *)
(* total_debit of a position whose status is CLOSED or ROLLED.             *)
(***************************************************************************)
C16_ClosedFrozenForEveryWriter ==
    [][\A i \in 1..Len(positions) :
          positions[i].status \in {"CLOSED", "ROLLED"} =>
             /\ DOMAIN positions'[i] = DOMAIN positions[i]
             /\ \A f \in DOMAIN positions[i] \cap
                      {"contracts", "status", "total_credit", "total_debit"} :
                   positions'[i][f] = positions[i][f]]_vars

(***************************************************************************)
(* C17.  Annualized-return clamp: for every position with age_days > 0,    *)
(* whatever its return_pct, analyze_position produces an annualized return *)
(* and an annualized ROC, and both lie in [-500, 500].                     *)
(***************************************************************************)
C17_AnnualizedClamp ==
    ret.done =>
        \A i \in 1..Len(positions) :
           (~positions[i].entry_date.time /\ Today - positions[i].entry_date.day > 0) =>
              /\ ret.analysis[i].ok
              /\ ret.analysis[i].AnnRet >= -50000 /\ ret.analysis[i].AnnRet <= 50000
              /\ ret.analysis[i].AnnROC >= -50000 /\ ret.analysis[i].AnnROC <= 50000

(***************************************************************************)
(* C18.  Per-position P/L: for every entry_price, mark and contracts,      *)
(* contracts = 0 and negative contracts included, analyze_position reports *)
(* pl = (entry_price - mark) * contracts * 100.                            *)
(***************************************************************************)
C18_ProfitAndLoss ==
    ret.done =>
        \A i \in 1..Len(positions) :
           ret.analysis[i].ok =>
              ret.analysis[i].PL =
                 (positions[i].entry_price - positions[i].mark) * positions[i].contracts

(***************************************************************************)
(* C19.  Exposure percentage: analyze_position reports                     *)
(* exposure / account_size * 100 when the position's account_size is > 0   *)
(* and 0 when account_size is 0 or missing.                                *)
(***************************************************************************)
C19_ExposurePct ==
    ret.done =>
        \A i \in 1..Len(positions) :
           ret.analysis[i].ok =>
              IF "account_size" \in DOMAIN positions[i] /\ positions[i].account_size > 0
              THEN ret.analysis[i].ExposurePct =
                      RoundDiv(ret.analysis[i].Exposure * 10000, positions[i].account_size)
              ELSE ("account_size" \notin DOMAIN positions[i] \/ positions[i].account_size = 0)
                      => ret.analysis[i].ExposurePct = 0

(***************************************************************************)
(* C20.  Analytics is read-only: a run of the analytics leaves every row   *)
(* of the positions table and of the trades table as it was.               *)
(***************************************************************************)
C20_AnalyticsReadOnly ==
    [][RunAnalytics => positions' = positions /\ trades' = trades]_vars

\* the analytics has run on a table with a row and has analyzed it
C20_Witness ==
    /\ ret.done
    /\ Len(positions) = 1
    /\ ret.analysis[1].ok
    /\ ret.analysis[1].PL = -60

(***************************************************************************)
(* Helpers of the properties of the normalizer.                            *)
(***************************************************************************)
\* the timestamp of an order parses: the parser returns a datetime
TimestampParses(order) ==
    LET r == _parse_schwab_datetime(Or(Get(order, "enteredTime", JNone),
                                       Get(order, "closeTime", JNone)))
    IN  ~r.raised /\ r.ok

\* the leg is an option leg by its leg type or by the asset type of its instrument
IsOptionLeg(leg) ==
    \/ ContainsOPTION(Upper(Str(Get(leg, "orderLegType", JStr("")))))
    \/ LET instr == Get(leg, "instrument", JNone)
       IN  instr.t = "dict" /\ Upper(Str(Get(instr, "assetType", JStr("")))) = "OPTION"

\* a sequence without its j-th element
Remove(q, j) == SubSeq(q, 1, j - 1) \o SubSeq(q, j + 1, Len(q))

\* what the normalizer returned, as normalize_orders_json gives it
Returned(r) ==
    IF r.raised THEN [done |-> TRUE, raised |-> TRUE]
    ELSE [done |-> TRUE, raised |-> FALSE, events |-> r.events]

(***************************************************************************)
(* C21.  Normalizer emission filter: every event normalize_orders_json     *)
(* emits comes from an option leg of an order whose status is FILLED and   *)
(* whose timestamp parses; and an order whose timestamp cannot be parsed   *)
(* emits nothing and leaves the result what it is for the payload without  *)
(* that order, so the later orders still emit.                             *)
(***************************************************************************)
C21_EmissionFilter ==
    (ret.done /\ arg.t = "list") =>
        /\ ~ret.raised =>
              \A i \in 1..Len(ret.events) :
                 \E j \in 1..Len(arg.v) :
                    /\ arg.v[j].t = "dict"
                    /\ Upper(Str(Get(arg.v[j], "status", JStr("")))) = "FILLED"
                    /\ TimestampParses(arg.v[j])
                    /\ ret.events[i].trade_datetime
                          = _parse_schwab_datetime(
                                Or(Get(arg.v[j], "enteredTime", JNone),
                                   Get(arg.v[j], "closeTime", JNone))).v
                    /\ LET legs == Get(arg.v[j], "orderLegCollection", JNone)
                       IN  /\ legs.t = "list"
                           /\ \E k \in 1..Len(legs.v) :
                                 legs.v[k].t = "dict" /\ IsOptionLeg(legs.v[k])
        /\ \A j \in 1..Len(arg.v) :
              (/\ arg.v[j].t = "dict"
               /\ Upper(Str(Get(arg.v[j], "status", JStr("")))) = "FILLED"
               /\ ~TimestampParses(arg.v[j]))
              => ret = Returned(normalize_orders_json(JList(Remove(arg.v, j))))

\* the structured expiration of an instrument, where it parses
StructuredExpiration(instr) ==
    LET r == _parse_schwab_datetime(Or(Get(instr, "maturityDate", JNone),
                                       Get(instr, "expirationDate", JNone)))
    IN  IF ~r.raised /\ r.ok THEN Some(DateOf(r.v)) ELSE Nothing

\* the structured strike of an instrument, where it parses
StructuredStrike(instr) ==
    LET x == Get(instr, "strikePrice", JNone)
    IN  IF x.t # "NoneType" /\ Number(x).ok THEN Some(Number(x).v) ELSE Nothing

\* the (expiration, strike) pairs the instruments of a payload resolve to: the
\* structured value where it parses, the value decoded from the symbol for a field
\* that is missing, and no pair where a field is obtained from neither
Resolved(raw) ==
    LET LegLists ==
            {raw[j].v.orderLegCollection.v :
                j \in {j \in 1..Len(raw) :
                         /\ raw[j].t = "dict"
                         /\ "orderLegCollection" \in DOMAIN raw[j].v
                         /\ raw[j].v.orderLegCollection.t = "list"}}
        InstrumentsOf(legs) ==
            {legs[k].v.instrument :
                k \in {k \in 1..Len(legs) :
                         /\ legs[k].t = "dict"
                         /\ "instrument" \in DOMAIN legs[k].v
                         /\ legs[k].v.instrument.t = "dict"}}
        Instruments == UNION {InstrumentsOf(legs) : legs \in LegLists}
        Pair(instr) ==
            LET e == StructuredExpiration(instr)
                s == StructuredStrike(instr)
                d == _parse_occ_option_symbol(Get(instr, "symbol", JNone))
                decoded == ~(e.ok /\ s.ok) /\ ~d.raised /\ d.ok
            IN  IF (e.ok \/ decoded) /\ (s.ok \/ decoded)
                THEN {<<IF e.ok THEN e.v ELSE d.v.expiration,
                        IF s.ok THEN s.v ELSE d.v.strike>>}
                ELSE {}
    IN  UNION {Pair(instr) : instr \in Instruments}

(***************************************************************************)
(* C22.  Expiration/strike resolution: the expiration and the strike of    *)
(* every emitted event are those some leg of the payload resolves to: the  *)
(* structured value where it parses, in preference to the value decoded    *)
(* from the OCC symbol, the decoded value only for a field that is         *)
(* missing; a leg for which one of the two is obtained from neither emits  *)
(* nothing.                                                                *)
(***************************************************************************)
C22_ExpirationStrikeResolution ==
    (ret.done /\ ~ret.raised /\ arg.t = "list") =>
        \A i \in 1..Len(ret.events) :
           <<ret.events[i].expiration, ret.events[i].strike>> \in Resolved(arg.v)

\* the only leg of the payload has a structured expiration other than the one of
\* its symbol and no structured strike: the event has the structured expiration and
\* the strike of the symbol
C22_Witness ==
    /\ ret.done
    /\ ~ret.raised
    /\ arg.t = "list"
    /\ Len(arg.v) = 1
    /\ Len(ret.events) = 1
    /\ StructuredExpiration(arg.v[1].v.orderLegCollection.v[1].v.instrument)
          = Some([year |-> 2025, month |-> 12, day |-> 2])
    /\ ~StructuredStrike(arg.v[1].v.orderLegCollection.v[1].v.instrument).ok
    /\ ret.events[1].expiration = [year |-> 2025, month |-> 12, day |-> 2]
    /\ ret.events[1].strike = 50

\* the instant a datetime denotes: its wall-clock reading less its UTC offset
Instant(dt) == dt.wall - dt.off

\* the two orders differ in nothing but their enteredTime
SameButTime(o1, o2) == Without(o1.v, "enteredTime") = Without(o2.v, "enteredTime")

(***************************************************************************)
(* C23.  Timestamps are normalized to UTC: when the two orders of a        *)
(* payload differ only in the spelling of their timestamp and the two      *)
(* spellings denote one instant, their events are stored with the same     *)
(* trade_datetime string, the second is a duplicate, and one trade row is  *)
(* written.                                                                *)
(***************************************************************************)
C23_SameInstantSameKey ==
    (/\ ret.done
     /\ ~ret.raised
     /\ ~ret.dry_run
     /\ Len(arg.v) = 2
     /\ SameButTime(arg.v[1], arg.v[2])
     /\ Instant(ret.events[1].trade_datetime) = Instant(ret.events[2].trade_datetime))
    => /\ strftime(ret.events[1].trade_datetime) = strftime(ret.events[2].trade_datetime)
       /\ last.outcome = "duplicate"
       /\ BagCardinality(trades) = 1

\* the activities of an order that supply a positive execution price: EXECUTION
\* entries whose first execution leg has a price above zero
PositiveExecutions(order) ==
    LET acts == Get(order, "orderActivityCollection", JList(<<>>))
    IN  IF acts.t # "list" THEN {}
        ELSE {i \in 1..Len(acts.v) :
                /\ acts.v[i].t = "dict"
                /\ Upper(Str(Get(acts.v[i], "activityType", JStr("")))) = "EXECUTION"
                /\ LET legs == Get(acts.v[i], "executionLegs", JNone)
                   IN  /\ legs.t = "list"
                       /\ Len(legs.v) > 0
                       /\ legs.v[1].t = "dict"
                       /\ Number(Get(legs.v[1], "price", JNone)).ok
                       /\ Number(Get(legs.v[1], "price", JNone)).v > 0}

\* the prices an order may give its events: the price of the first execution leg of
\* its first activity with a positive execution price; with no such activity, the
\* order-level price where the order has one
SelectedPrices(order) ==
    LET acts == Get(order, "orderActivityCollection", JList(<<>>))
        p == Get(order, "price", JNone)
    IN  IF PositiveExecutions(order) # {}
        THEN {Number(Get(acts.v[Min(PositiveExecutions(order))].v.executionLegs.v[1],
                         "price", JNone)).v}
        ELSE IF Number(p).ok THEN {Number(p).v}
        ELSE Prices \cup {0}

(***************************************************************************)
(* C24.  Fill price selection: the price of every event of a FILLED order  *)
(* is the price of the first execution leg of its first EXECUTION activity *)
(* whose price is positive, and the order-level price when no execution    *)
(* activity supplies a positive price; the legs of one order all receive   *)
(* that price.                                                             *)
(***************************************************************************)
C24_FillPriceSelection ==
    (ret.done /\ ~ret.raised /\ arg.t = "list") =>
        /\ \A i \in 1..Len(ret.events) :
              \E j \in 1..Len(arg.v) :
                 /\ arg.v[j].t = "dict"
                 /\ Upper(Str(Get(arg.v[j], "status", JStr("")))) = "FILLED"
                 /\ ret.events[i].price \in SelectedPrices(arg.v[j])
        /\ Len(arg.v) = 1 =>
              \A i, k \in 1..Len(ret.events) : ret.events[i].price = ret.events[k].price

\* an order of two legs whose first execution has the price 0 and whose second has
\* the price 0.50, with an order-level price of 1.50: both events have the price 0.50
C24_Witness ==
    /\ ret.done
    /\ ~ret.raised
    /\ arg = JList(<<JDict(ExecutedOrder(<<Activity("EXECUTION", <<0>>),
                                           Activity("EXECUTION", <<50>>)>>))>>)
    /\ Len(ret.events) = 2
    /\ ret.events[1].price = 50
    /\ ret.events[2].price = 50

\* the rows of a table with status OPEN or EXPIRED and the identity of the event
LiveRowsOfKey(pos, ev) ==
    {i \in 1..Len(pos) :
        /\ pos[i].status \in {"OPEN", "EXPIRED"}
        /\ pos[i].symbol = ev.symbol
        /\ pos[i].strike = ev.strike
        /\ pos[i].expiration = isoformat(ev.expiration)
        /\ pos[i].strategy = (CASE ev.direction = "SELL" /\ ev.option_type = "PUT"
                                      -> "ShortPut"
                                [] ev.direction = "SELL" /\ ev.option_type = "CALL"
                                      -> "ShortCall"
                                [] ev.direction = "BUY" /\ ev.option_type = "PUT"
                                      -> "LongPut"
                                [] OTHER -> "LongCall")}

(***************************************************************************)
(* C25.  Oldest-match selection: when several rows with status OPEN or     *)
(* EXPIRED have the event's (symbol, strategy, strike, expiration),        *)
(* find_or_create_position_id returns the smallest of their ids and leaves *)
(* the positions table as it was.                                          *)
(***************************************************************************)
C25_OldestMatch ==
    (ret.done /\ Cardinality(LiveRowsOfKey(arg.positions, arg.ev)) >= 2) =>
        /\ ~ret.raised
        /\ ret.id \in LiveRowsOfKey(arg.positions, arg.ev)
        /\ \A i \in LiveRowsOfKey(arg.positions, arg.ev) : ret.id <= i
        /\ ~ret.created
        /\ positions = arg.positions

\* the second and the third row are live rows of the event's key and the first is a
\* closed one: the id returned is 2
C25_Witness ==
    /\ ret.done
    /\ LiveRowsOfKey(arg.positions, arg.ev) = {2, 3}
    /\ arg.positions[1].status = "CLOSED"
    /\ arg.positions[1].strategy = arg.positions[2].strategy
    /\ ret.id = 2

(***************************************************************************)
(* C26.  New-position initial state: when no row with status OPEN or       *)
(* EXPIRED has the event's key, the row find_or_create_position_id inserts *)
(* is the last of the table, its id is returned, and it has contracts 0,   *)
(* status OPEN, entry_price and mark the event's fill price, entry_date    *)
(* and last_updated the event's timestamp, total_credit, total_debit,      *)
(* commissions and fees 0, and the strategy SELL+PUT -> ShortPut,          *)
(* SELL+CALL -> ShortCall, BUY+PUT -> LongPut, otherwise LongCall.         *)
(***************************************************************************)
C26_NewPositionInitialState ==
    (ret.done /\ ~ret.raised /\ LiveRowsOfKey(arg.positions, arg.ev) = {}) =>
        /\ ret.created
        /\ Len(positions) = Len(arg.positions) + 1
        /\ ret.id = Len(positions)
        /\ \A i \in 1..Len(arg.positions) : positions[i] = arg.positions[i]
        /\ positions[ret.id] =
              [symbol |-> arg.ev.symbol,
               strategy |-> CASE arg.ev.direction = "SELL" /\ arg.ev.option_type = "PUT"
                                    -> "ShortPut"
                              [] arg.ev.direction = "SELL" /\ arg.ev.option_type = "CALL"
                                    -> "ShortCall"
                              [] arg.ev.direction = "BUY" /\ arg.ev.option_type = "PUT"
                                    -> "LongPut"
                              [] OTHER -> "LongCall",
               contracts |-> 0, status |-> "OPEN", strike |-> arg.ev.strike,
               expiration |-> isoformat(arg.ev.expiration),
               entry_price |-> arg.ev.price, mark |-> arg.ev.price,
               total_credit |-> 0, total_debit |-> 0, commissions |-> 0, fees |-> 0,
               entry_date |-> strftime(arg.ev.trade_datetime),
               last_updated |-> strftime(arg.ev.trade_datetime)]

\* a purchase of puts on a table that holds a live short put and a live long call:
\* a third row is inserted, a LongPut with no contracts
C26_Witness ==
    /\ ret.done
    /\ ret.created
    /\ ret.id = 3
    /\ positions[1].status = "OPEN"
    /\ positions[2].status = "EXPIRED"
    /\ positions[3].strategy = "LongPut"
    /\ positions[3].contracts = 0
    /\ positions[3].entry_price = 50
    /\ positions[3].entry_date = 2

\* the rows of a table that have the identity of the event, whatever their status
RowsOfKey(pos, ev) ==
    {i \in 1..Len(pos) :
        /\ pos[i].symbol = ev.symbol
        /\ pos[i].strategy = StrategyOf(ev)
        /\ pos[i].strike = ev.strike
        /\ pos[i].expiration = isoformat(ev.expiration)}

(***************************************************************************)
(* C27.  Key recurrence after closure opens a new lineage: when            *)
(* apply_trade_event_to_db is called for an event whose key is that of     *)
(* rows of the positions table which all have status CLOSED or ROLLED, it  *)
(* inserts a new row with status OPEN and goes on to record the trade      *)
(* against the new row.                                                    *)
(***************************************************************************)
C27_RecurrenceOpensNewRow ==
    [][\A ev \in WriterEvents :
          (/\ \E dry_run \in BOOLEAN : ApplyBegin(ev, dry_run)
           /\ RowsOfKey(positions, ev) # {}
           /\ \A i \in RowsOfKey(positions, ev) :
                 positions[i].status \in {"CLOSED", "ROLLED"})
          => /\ Len(positions') = Len(positions) + 1
             /\ positions'[Len(positions')].status = "OPEN"
             /\ pending' # NoCall
             /\ pending'.pos_id = Len(positions')]_vars

\* the sum of |contracts * price * 100| over the rows of the trades table that refer
\* to position i and whose action is one of actions
GrossSum(trd, i, actions) ==
    LET RECURSIVE Sum(_)
        Sum(S) == IF S = {} THEN 0
                  ELSE LET t == CHOOSE x \in S : TRUE
                       IN  Abs(t.contracts * t.price * 100) * CopiesIn(t, trd)
                           + Sum(S \ {t})
    IN  Sum({t \in TradesOf(trd, i) : t.action \in actions})

\* an accumulator of row i of a table, 0 for a row the table does not have yet
Accumulated(pos, i, f) == IF i <= Len(pos) THEN pos[i][f] ELSE 0

(***************************************************************************)
(* C28.  Credit/debit attribution: after any sequence of applies the       *)
(* total_credit of a position is the sum of |contracts * price * 100| over *)
(* its SELL trade rows and its total_debit the sum over its BUY trade      *)
(* rows; an apply that writes a trade row adds its gross to one of the two *)
(* accumulators of one position and nothing to the other, and no step      *)
(* makes an accumulator smaller.                                           *)
(***************************************************************************)
C28_CreditDebitAttribution ==
    /\ [](\A i \in 1..Len(positions) :
             /\ positions[i].total_credit
                   = GrossSum(trades, i, {"SELL_OPEN", "SELL_CLOSE"})
             /\ positions[i].total_debit
                   = GrossSum(trades, i, {"BUY_OPEN", "BUY_CLOSE"}))
    /\ [][/\ \A i \in 1..Len(positions') :
                /\ positions'[i].total_credit >= Accumulated(positions, i, "total_credit")
                /\ positions'[i].total_debit >= Accumulated(positions, i, "total_debit")
          /\ trades' # trades =>
                \E i \in 1..Len(positions') :
                   \E t \in BagToSet(trades') :
                      /\ trades' = trades (+) SetToBag({t})
                      /\ t.position_id = i
                      /\ positions'[i].total_credit
                            = Accumulated(positions, i, "total_credit")
                              + (IF t.action \in {"SELL_OPEN", "SELL_CLOSE"}
                                 THEN Abs(t.contracts * t.price * 100) ELSE 0)
                      /\ positions'[i].total_debit
                            = Accumulated(positions, i, "total_debit")
                              + (IF t.action \in {"BUY_OPEN", "BUY_CLOSE"}
                                 THEN Abs(t.contracts * t.price * 100) ELSE 0)
                      /\ \A j \in 1..Len(positions') \ {i} :
                            /\ positions'[j].total_credit
                                  = Accumulated(positions, j, "total_credit")
                            /\ positions'[j].total_debit
                                  = Accumulated(positions, j, "total_debit")]_vars

\* a sale of two contracts and a purchase of one have been applied: one position has
\* the credit of the sale and one the debit of the purchase
C28_Witness ==
    /\ BagCardinality(trades) = 2
    /\ \E i \in 1..Len(positions) :
          positions[i].total_credit = 30000 /\ positions[i].total_debit = 0
    /\ \E i \in 1..Len(positions) :
          positions[i].total_debit = 15000 /\ positions[i].total_credit = 0

\* two events agree on everything the claim lists, the timestamp to the second, and
\* differ in the order id or the leg id the broker gave them
AgreeButBrokerIds(e1, e2) ==
    /\ e1.symbol = e2.symbol
    /\ e1.option_type = e2.option_type
    /\ e1.strike = e2.strike
    /\ e1.expiration = e2.expiration
    /\ e1.direction = e2.direction
    /\ e1.open_close = e2.open_close
    /\ e1.quantity = e2.quantity
    /\ e1.price = e2.price
    /\ Instant(e1.trade_datetime) = Instant(e2.trade_datetime)
    /\ \/ e1.schwab_order_id # e2.schwab_order_id
       \/ e1.schwab_leg_id # e2.schwab_leg_id

(***************************************************************************)
(* C29.  Broker identifiers are not part of the dedup key: when the second *)
(* event of a run agrees with the first, already applied, on symbol,       *)
(* option kind, strike, expiration, direction, qualifier, quantity, price  *)
(* and timestamp to the second, and differs from it in schwab_order_id or  *)
(* schwab_leg_id, applying it is reported as a duplicate, writes no trade  *)
(* row and changes no position.                                            *)
(***************************************************************************)
C29_BrokerIdsNotInKey ==
    [][(/\ SyncApply
        /\ ~ret.dry_run
        /\ ret.next = 2
        /\ AgreeButBrokerIds(ret.events[1], ret.events[2]))
       => /\ last'.outcome = "duplicate"
          /\ trades' = trades
          /\ positions' = positions]_vars

\* no call of the run has raised
NoStoreFailure(run) == \A i \in 1..Len(run.outcomes) : run.outcomes[i] # "raised"

\* a run that was not started again after a stop: the events that have an outcome are
\* the first of the batch, the call in progress is for the event after them, and
\* between two calls the ledger is the one the calls for those events, one after the
\* other and each to its end, leave
InOrderOnceEach ==
    (ret # NoResult /\ ~ret.crashed /\ NoStoreFailure(ret)) =>
        /\ Len(ret.outcomes) <= Len(arg.events)
        /\ ret.next = Len(ret.outcomes) + 1
        /\ pending # NoCall => pending.ev = arg.events[ret.next]
        /\ pending = NoCall =>
              [positions |-> positions, trades |-> trades]
                 = main(arg.positions, arg.trades,
                        SubSeq(arg.events, 1, Len(ret.outcomes)), 1, ret.dry_run,
                        uniqueIdx)
        /\ ret.done <=> Len(ret.outcomes) = Len(arg.events)

(***************************************************************************)
(* C30.  Strictly sequential, terminating batch: with no store failure,    *)
(* main handles the events in the order of the batch, the call for an      *)
(* event has ended (applied with its commit, duplicate, dry or skipped)    *)
(* before the next event is looked at, every event is handled exactly      *)
(* once, and a run that has started eventually finishes.                   *)
(***************************************************************************)
C30_SequentialTerminating ==
    /\ []InOrderOnceEach
    /\ (ret # NoResult /\ ~ret.done) ~> (ret # NoResult /\ ret.done)

\* a run has finished on a batch of a sale, an indeterminate event and the sale
\* again: applied, skipped, duplicate, and one trade row
C30_Witness ==
    /\ ret # NoResult
    /\ ret.done
    /\ ~ret.crashed
    /\ ret.outcomes = <<"applied", "skipped", "duplicate">>
    /\ BagCardinality(trades) = 1

(***************************************************************************)
(* C31.  Ledger-created positions are analyzable: for every position row   *)
(* find_or_create_position_id has created, analyze_position returns a      *)
(* result row, and its age in days is the number of days between today and *)
(* the date part of the stored entry_date.                                 *)
(***************************************************************************)
C31_LedgerPositionsAnalyzable ==
    ret.done =>
        \A i \in 1..Len(positions) :
           /\ ret.analysis[i].ok
           /\ ret.analysis[i].Age = Today - ReadRow(positions[i]).entry_date.day

(***************************************************************************)
(* C32.  Live update touches only market snapshot fields: a step of        *)
(* update_db changes at most mark, iv, delta and last_updated of the       *)
(* addressed position, leaves every other column of it (contracts,         *)
(* total_credit, total_debit, status, entry_price among them), every other *)
(* position and every trade as they were, and changes nothing at all when  *)
(* the addressed position is CLOSED or ROLLED.                             *)
(***************************************************************************)
C32_LiveUpdateFrame ==
    [][\A row_id \in 1..Len(positions), quote \in Quotes :
          UpdateDb(row_id, quote) =>
             /\ Len(positions') = Len(positions)
             /\ trades' = trades
             /\ \A i \in 1..Len(positions) :
                   /\ i # row_id => positions'[i] = positions[i]
                   /\ positions[i].status \in {"CLOSED", "ROLLED"} =>
                         positions'[i] = positions[i]
                   /\ \A f \in DOMAIN positions[i] \ {"mark", "iv", "delta", "last_updated"} :
                         positions'[i][f] = positions[i][f]]_vars

\* update_db has written a quote to a live position that holds contracts
C32_Witness ==
    /\ last.op = "update_db"
    /\ last.rows = 1
    /\ \E i \in 1..Len(positions) :
          /\ positions[i].status = "OPEN"
          /\ positions[i].contracts # 0
          /\ "iv" \in DOMAIN positions[i]
          /\ positions[i].iv = 45
          /\ positions[i].mark = 120
          /\ positions[i].last_updated = NowLocal

(***************************************************************************)
(* C33.  Quote-not-found is skip-and-continue: when a live update run has  *)
(* gone through its loop, every position it read has been looked up once,  *)
(* in the order read; a position whose lookup returned nothing (expiration *)
(* or strike not in the chain, or the fetch raised) has the row it had     *)
(* when the run started, and a position whose lookup returned a quote has  *)
(* the row update_db makes of it with that quote, wherever in the run the  *)
(* lookups that returned nothing were.                                     *)
(***************************************************************************)
C33_SkipAndContinue ==
    (ret # NoResult /\ ~ret.skipped /\ (ret.done \/ ret.next > Len(ret.df))) =>
        /\ Len(ret.lookups) = Len(ret.df)
        /\ Len(positions) = Len(ret.before)
        /\ \A i \in 1..Len(ret.df) :
              /\ ret.lookups[i].id = ret.df[i].id
              /\ IF ret.lookups[i].res.ok
                 THEN positions[i] = update_db(ret.before, i, ret.lookups[i].res.v.mark,
                                               ret.lookups[i].res.v.iv,
                                               ret.lookups[i].res.v.delta)[i]
                 ELSE positions[i] = ret.before[i]

\* a run over three open positions has ended: the first lookup returned nothing,
\* the second a quote, the third nothing, and only the second row has the quote
C33_Witness ==
    /\ ret # NoResult
    /\ ret.done
    /\ ret.refreshed
    /\ Len(ret.lookups) = 3
    /\ ~ret.lookups[1].res.ok
    /\ ret.lookups[2].res.ok
    /\ ~ret.lookups[3].res.ok
    /\ \A i \in 1..3 : ret.before[i].status = "OPEN"
    /\ positions[1] = ret.before[1]
    /\ positions[2] # ret.before[2]
    /\ positions[2].mark = 120
    /\ positions[3] = ret.before[3]

(***************************************************************************)
(* C34.  Single-run guard: a process in which run() has started, and a     *)
(* child process started with the environment of such a process, has       *)
(* ORACLE_LIVE_ACTIVE = 1; a run() called in it ends at once, reads no     *)
(* position, updates no position and starts no analytics subprocess.       *)
(***************************************************************************)
C34_SingleRunGuard ==
    /\ [](\A p \in arg.guarded : arg.environ[p] = "1")
    /\ [][\A p \in arg.guarded :
             RunStart(p) =>
                /\ ret'.done
                /\ ret'.skipped
                /\ positions' = positions
                /\ arg'.reads = arg.reads
                /\ arg'.spawned = arg.spawned]_vars

\* a first run has updated a position and started the analytics; a run called after
\* it in the child process has been skipped, and so has one in the process itself
C34_Witness ==
    /\ ret # NoResult
    /\ ret.skipped
    /\ ret.proc = "main"
    /\ arg.runs = 3
    /\ arg.reads = 1
    /\ arg.spawned = 1
    /\ arg.guarded = Procs
    /\ Len(positions) > 0
    /\ positions[1].mark = 120

(***************************************************************************)
(* C35.  Apply leaves identity and entry fields alone: a step of           *)
(* apply_trade_event_to_db changes the symbol, strategy, strike,           *)
(* expiration, status, entry_price, entry_date and mark of no position     *)
(* that exists, changes no position but the one the matcher returned,      *)
(* removes no position, and every trade row there was is still there,      *)
(* unchanged.                                                              *)
(***************************************************************************)
C35_ApplyFrame ==
    [][BackfillStep =>
          /\ Len(positions') >= Len(positions)
          /\ trades \sqsubseteq trades'
          /\ \A i \in 1..Len(positions) :
                /\ DOMAIN positions'[i] = DOMAIN positions[i]
                /\ \A f \in DOMAIN positions[i] \cap
                         {"symbol", "strategy", "strike", "expiration", "status",
                          "entry_price", "entry_date", "mark"} :
                      positions'[i][f] = positions[i][f]
                /\ positions'[i] # positions[i] =>
                      pending # NoCall /\ pending.pos_id = i]_vars

\* a fill has been applied to a position that existed before it, next to another
\* position and to the trade that opened it
C35_Witness ==
    /\ last.op = "apply"
    /\ last.outcome = "applied"
    /\ last.rows = 1
    /\ Len(positions) = 2
    /\ BagCardinality(trades) = 2
    /\ \E i \in 1..2 : Cardinality(TradesOf(trades, i)) = 2

(***************************************************************************)
(* C36.  Every position has a trade: after any sequence of                 *)
(* apply_trade_event_to_db calls, with either dry_run value and with       *)
(* duplicates, every position row has at least one trade row referring to  *)
(* it: no position stays with contracts = 0 and no recorded fill.          *)
(***************************************************************************)
C36_EveryPositionHasTrade ==
    \A i \in 1..Len(positions) : TradesOf(trades, i) # {}

\* the rows of a table whose Symbol is not the given one, in their order
RowsOfOtherSymbols(df, symbol) ==
    LET Others(row) == row["Symbol"] # symbol
    IN  SelectSeq(df, Others)

(***************************************************************************)
(* C37.  TradeRegistry upsert by symbol: after add_trade with Symbol = S   *)
(* the registry holds exactly one row with Symbol S, and it carries the    *)
(* values of the call; after remove_trade(S) it holds no row with Symbol   *)
(* S; after either, the rows of all other symbols are the rows there were, *)
(* and the CSV file holds what to_csv writes of the table in memory.       *)
(***************************************************************************)
C37_UpsertBySymbol ==
    (ret.done /\ ret.symbol # JNone) =>
        LET rows == {i \in 1..Len(arg.df) : arg.df[i]["Symbol"] = ret.symbol}
        IN  /\ ret.op = "add_trade" =>
                  /\ Cardinality(rows) = 1
                  /\ \A i \in rows, col \in Columns :
                        arg.df[i][col] = IF col \in DOMAIN ret.kwargs
                                         THEN ret.kwargs[col] ELSE JNone
            /\ ret.op = "remove_trade" => rows = {}
            /\ RowsOfOtherSymbols(arg.df, ret.symbol) =
                  RowsOfOtherSymbols(ret.before, ret.symbol)
            /\ Len(arg.registry_path) = Len(arg.df) + 1
            /\ arg.registry_path[1] = columns
            /\ \A i \in 1..Len(arg.df), c \in 1..Len(columns) :
                  arg.registry_path[i + 1][c] = CsvField(arg.df[i][columns[c]])

\* add_trade has replaced the two rows of XYZ a loaded table had by one row with the
\* new strike, next to the row of ABC, and the file has the three lines of it
C37_Witness ==
    /\ ret.done
    /\ ret.op = "add_trade"
    /\ ret.symbol = JStr("XYZ")
    /\ Len(ret.before) = 3
    /\ Cardinality({i \in 1..3 : ret.before[i]["Symbol"] = JStr("XYZ")}) = 2
    /\ Len(arg.df) = 2
    /\ arg.df[1]["Symbol"] = JStr("ABC")
    /\ arg.df[2]["Strike"] = JInt(55)
    /\ arg.registry_path[3][3] = "55"

(***************************************************************************)
(* C38.  The two resolvers agree: for every event whose direction is BUY   *)
(* or SELL and whose qualifier is OPENING, CLOSING or UNKNOWN,             *)
(* map_event_to_action_and_contracts returns the action of                 *)
(* derive_action_from_event and the signed contracts                       *)
(* apply_trade_event_to_db computes from it.                               *)
(***************************************************************************)
C38_ResolversAgree ==
    (/\ ret.done
     /\ arg.direction \in {"BUY", "SELL"}
     /\ arg.open_close \in {"OPENING", "CLOSING", "UNKNOWN"}) =>
        ret.mapped = ret.derived

====
